---- MODULE Spec2Model ----
(***************************************************************************)
(* Fleet monitoring, command dispatch and alerting engine of allyend       *)
(* (app/routers/crawlers.py).  The persistent store is modelled table by   *)
(* table; every request handler is one atomic action (one transaction).    *)
(* Time is the integer `clock`, counted in minutes; each request carries   *)
(* the time that elapsed since the previous request as its input `gap`.    *)
(***************************************************************************)
EXTENDS Integers, Sequences, FiniteSets, TLC

\* ------------------------------------------------------------------ bounds
MaxClock == 3            \* last minute at which a request is processed (general specs)
MaxScenarioClock == 16   \* last minute of the offline-heartbeat scenario
MaxHeartbeats == 2       \* HeartbeatEvent rows kept in the general alert spec
MaxScenarioBeats == 6    \* HeartbeatEvent rows in the offline-heartbeat scenario
MaxRuns == 1             \* CrawlerRun rows
MaxLogs == 4             \* LogEntry rows written while the service runs (SpecLog)
AskedMaxLines == 2       \* the line ceiling the operator asks for in SpecLog
MaxLogRows == 3          \* LogEntry rows present at once in SpecQuota
MaxAssignments == 3       \* CrawlerConfigAssignment rows in SpecConfig
MaxVersion == 3           \* largest assignment version in SpecVersion
DeriveMargin == 4         \* seconds examined on each side of a window boundary
MaxStatusBeats == 3       \* HeartbeatEvent rows in SpecStatus
MaxLogId == 24           \* largest LogEntry id in SpecQuota
RateTicksPerSecond == 2         \* resolution of time.time() in the rate-limit part: ticks per second
MaxRateClock == 4               \* ticks the rate-limit part runs for
MaxRateCalls == 7               \* calls of the rate limiter in one behaviour
MaxInFlight == 2                \* calls waiting for the limiter's lock at one time
MaxTenantWrites == 2            \* accepted heartbeats plus log writes in the two-account part
MaxTargetRules == 2             \* alert rules created in the target part
MaxTargetBeats == 2             \* heartbeats in the target part
MaxRegistering == 2             \* register requests in progress at one time
MaxLimit == 5                   \* largest stored log limit (and smallest, negated) tried
MaxDispatchBeats == 2           \* heartbeats in the dispatch part
MaxStatsLogs == 2               \* log rows in the statistics part
MaxFileTokens == 2              \* rows of file_api_tokens
MaxHitsBeats == 4               \* heartbeats in the offline-counter part
MaxEditBeats == 5               \* heartbeats in the rule-edit part
MaxListRows == 104              \* heartbeat rows in the listing part
MaxWorkerRounds == 2            \* poll rounds of an SDK command worker
MaxPairBeats == 5               \* heartbeats of the two crawlers under one rule
MaxRaceBeats == 4               \* heartbeats stored or in progress in the interleaving part
MaxTrimWrites == 4              \* log writes under working ceilings

\* --------------------------------------------------------- program constants
HEARTBEAT_ONLINE_SECONDS == 300
HEARTBEAT_WARN_SECONDS == 900
COMMAND_FETCH_BATCH == 5
TRIM_CHUNK == 10000
CrawlerLoopCap == 20
UserLoopCap == 50
DEFAULT_CRAWLER_LOG_MAX_LINES == 1000000
DEFAULT_CRAWLER_LOG_MAX_BYTES == 104857600
DEFAULT_USER_LOG_QUOTA_BYTES == 314572800
LOG_QUERY_RATE_PER_SECOND == 5
STATS_CACHE_TTL_SECONDS == 60
TOKEN_GENERATION_ATTEMPTS == 5
TOKEN_MAX_LENGTH == 128
LIST_LIMIT_DEFAULT == 500
MAX_POINTS_DEFAULT == 600
MAX_POINTS_MINIMUM == 50
SecondsPerMinute == 60

\* ----------------------------------------------------------- value encoding
NoTime == -1             \* a NULL DateTime column
NoId == 0                \* a NULL foreign key
NoStatus == "none"       \* an absent (None / empty) optional string
NoNumber == -1000        \* a NULL Float column

VARIABLES
  clock,          \* value returned by now(), in minutes
  crawlers,       \* table crawlers: sequence of rows, id = index
  heartbeats,     \* table crawler_heartbeats (append-only); columns crawler_id, status, created_at
  runs,           \* table crawler_runs
  rules,          \* table crawler_alert_rules, id = index
  alert_states,   \* table crawler_alert_states: set of rows, unique per (rule_id, crawler_id)
  alert_events,   \* table crawler_alert_events (append-only)
  commands,       \* table crawler_commands, id = index
  response,       \* the last request's operation and the response it got
  logs,           \* table log_entries, in id order; columns id, crawler_id, size = length(message)
  log_request,    \* the create_log request in progress: its position and its locals
  assignments,    \* table crawler_config_assignments, id = index
  api_keys,       \* table api_keys as _require_api_key reads and writes it, id = index
  memory,         \* the module-level dictionaries of the process (_LOG_RATE_BUCKETS, _PRIVATE_STATS_CACHE)
  requests,       \* the requests being served by the worker threads: position and locals of each
  file_tokens,    \* table file_api_tokens: the set of stored token values
  schema          \* the constraints the database holds after the migrations that were applied

vars == <<clock, crawlers, heartbeats, runs, rules, alert_states, alert_events, commands, response, logs, log_request, assignments, api_keys, memory, requests, file_tokens, schema>>

\* The state outside the database tables of the crawler service.
process_state == <<memory, requests, file_tokens, schema>>

\* The tables that the heartbeat and command handlers never touch.
other_tables == <<logs, log_request, assignments, api_keys, memory, requests, file_tokens, schema>>

\* No create_log request is in progress.
IdleRequest == [pc |-> "idle"]

\* ------------------------------------------------------------ credentials
\* API keys are created by the account pages (outside this engine); the model
\* has two active keys, one of account 1 and one of account 2.
ApiKeys == {1, 2}
KeyUser(k) == k
KeyGroup(k) == NoId

Max(a, b) == IF a >= b THEN a ELSE b
Min(a, b) == IF a <= b THEN a ELSE b

\* ------------------------------------------------------------ payload values
\* A heartbeat payload is a JSON object; the model keeps the value found at
\* the dotted path "cpu".  kind: "int" (a JSON number), "numtext" (a string
\* float() parses), "text" (a string float() rejects), "bigint" (an integer
\* too large for a float), "missing" (no such key).
PayloadValue(kind, n) == [kind |-> kind, n |-> n]
MissingValue == PayloadValue("missing", 0)

_get_nested_payload_value(payload, field_path) ==
  IF field_path = NoStatus \/ payload.kind = "missing" THEN MissingValue ELSE payload

\* float(value): "ok" with a number, or the exception it raises.
ToFloat(value) ==
  CASE value.kind = "int" -> [res |-> "ok", n |-> value.n]
    [] value.kind = "numtext" -> [res |-> "ok", n |-> value.n]
    [] value.kind = "text" -> [res |-> "ValueError", n |-> 0]
    [] value.kind = "bigint" -> [res |-> "OverflowError", n |-> 0]
    [] OTHER -> [res |-> "None", n |-> 0]

\* Returns "true", "false" or the name of the exception that escapes.
_compare_threshold(value, threshold, comparator) ==
  IF threshold = NoNumber \/ comparator = NoStatus THEN "false"
  ELSE LET f == ToFloat(value) IN
    CASE f.res = "ValueError" -> "false"
      [] f.res = "OverflowError" -> "OverflowError"
      [] f.res = "None" -> "false"
      [] OTHER ->
          LET numeric == f.n IN
          LET b == CASE comparator = "gt" -> numeric > threshold
                     [] comparator = "ge" -> numeric >= threshold
                     [] comparator = "lt" -> numeric < threshold
                     [] comparator = "le" -> numeric <= threshold
                     [] comparator = "eq" -> numeric = threshold
                     [] comparator = "ne" -> numeric # threshold
                     [] OTHER -> FALSE
          IN IF b THEN "true" ELSE "false"

\* ------------------------------------------------------------ status deriver
\* _compute_status on times counted in units of `unit` seconds.
_compute_status_in_exclusive(unit, last_heartbeat, t) ==
  IF last_heartbeat = NoTime THEN "offline"
  ELSE LET delta == (t - last_heartbeat) * unit IN
       IF delta < HEARTBEAT_ONLINE_SECONDS THEN "online"
       ELSE IF delta < HEARTBEAT_WARN_SECONDS THEN "warning"
       ELSE "offline"

_compute_status_in(unit, last_heartbeat, t) ==
  IF last_heartbeat = NoTime THEN "offline"
  ELSE LET delta == (t - last_heartbeat) * unit IN
       IF delta <= HEARTBEAT_ONLINE_SECONDS THEN "online"
       ELSE IF delta <= HEARTBEAT_WARN_SECONDS THEN "warning"
       ELSE "offline"

_compute_status(last_heartbeat, t) == _compute_status_in(SecondsPerMinute, last_heartbeat, t)

\* ------------------------------------------------------------ alert engine
HasState(states, rid, cid) == <<rid, cid>> \in DOMAIN states

NewAlertState(rule, crawler) ==
  [rule_id |-> rule.id, crawler_id |-> crawler.id, user_id |-> rule.user_id,
   consecutive_hits |-> 0, last_triggered_at |-> NoTime,
   last_status |-> NoStatus, last_value |-> NoNumber]

_match_alert_rule_target(rule, crawler) ==
  IF rule.target_type = "all" \/ rule.target_ids = {} THEN TRUE
  ELSE IF rule.target_type = "crawler" THEN crawler.id \in rule.target_ids
  ELSE IF rule.target_type = "api_key" THEN crawler.api_key_id \in rule.target_ids
  ELSE IF rule.target_type = "group" THEN crawler.group_id \in rule.target_ids
  ELSE FALSE

\* SELECT ... first(), else INSERT and flush; the flush raises when the store fails.
_get_or_create_alert_state(states, rule, crawler, db_ok) ==
  IF HasState(states, rule.id, crawler.id)
  THEN [state |-> states[<<rule.id, crawler.id>>], raised |-> NoStatus]
  ELSE [state |-> NewAlertState(rule, crawler),
        raised |-> IF db_ok THEN NoStatus ELSE "OperationalError"]

\* A faulty variant: no cooldown is ever observed.
\* The cooldown read from the rule's own last fire, whichever crawler it was for.
_in_cooldown_by_rule(rule, state, t) ==
  LET cooldown == Max(rule.cooldown_minutes, 0) IN
  IF cooldown <= 0 \/ rule.last_triggered_at = NoTime THEN FALSE
  ELSE (t - rule.last_triggered_at) * SecondsPerMinute < cooldown * 60

_in_cooldown_never(rule, state, t) == FALSE

_in_cooldown(rule, state, t) ==
  LET cooldown == Max(rule.cooldown_minutes, 0) IN
  IF cooldown <= 0 \/ state.last_triggered_at = NoTime THEN FALSE
  ELSE (t - state.last_triggered_at) * SecondsPerMinute < cooldown * 60

\* A faulty variant: a single hit is always enough.
Required_one(rule) == 1

Required(rule) == Max(IF rule.consecutive_failures = 0 THEN 1 ELSE rule.consecutive_failures, 1)

\* A faulty variant: the counter is incremented whatever the previous status was.
_evaluate_status_rule_always_incrementing(rule, state, previous_status, current_status) ==
  IF current_status # "offline"
  THEN [state |-> [state EXCEPT !.consecutive_hits = 0, !.last_status = current_status],
        triggered |-> FALSE, raised |-> NoStatus]
  ELSE LET hits == state.consecutive_hits + 1 IN
       [state |-> [state EXCEPT !.consecutive_hits = hits, !.last_status = current_status],
        triggered |-> ~(hits < Required(rule)), raised |-> NoStatus]

_evaluate_status_rule(rule, state, previous_status, current_status) ==
  IF current_status # "offline"
  THEN [state |-> [state EXCEPT !.consecutive_hits = 0, !.last_status = current_status],
        triggered |-> FALSE, raised |-> NoStatus]
  ELSE LET hits == IF previous_status # "offline" THEN 1 ELSE state.consecutive_hits + 1 IN
       [state |-> [state EXCEPT !.consecutive_hits = hits, !.last_status = current_status],
        triggered |-> ~(hits < Required(rule)), raised |-> NoStatus]

\* A faulty variant: a heartbeat that fails the condition keeps the counter.
_evaluate_payload_rule_keeping_hits(rule, state, payload) ==
  LET value == _get_nested_payload_value(payload, rule.payload_field) IN
  IF value.kind = "bigint"
  THEN [state |-> state, triggered |-> FALSE, raised |-> "OverflowError"]
  ELSE
    LET s1 == [state EXCEPT !.last_value = IF value.kind = "int" THEN value.n ELSE NoNumber] IN
    LET cmp == _compare_threshold(value, rule.threshold, rule.comparator) IN
    IF cmp # "true"
    THEN [state |-> s1, triggered |-> FALSE, raised |-> NoStatus]
    ELSE LET hits == s1.consecutive_hits + 1 IN
         [state |-> [s1 EXCEPT !.consecutive_hits = hits],
          triggered |-> ~(hits < Required(rule)), raised |-> NoStatus]

_evaluate_payload_rule(rule, state, payload) ==
  LET value == _get_nested_payload_value(payload, rule.payload_field) IN
  IF value.kind = "bigint"
  THEN [state |-> state, triggered |-> FALSE, raised |-> "OverflowError"]
  ELSE
    LET s1 == [state EXCEPT !.last_value = IF value.kind = "int" THEN value.n ELSE NoNumber] IN
    LET cmp == _compare_threshold(value, rule.threshold, rule.comparator) IN
    IF cmp # "true"
    THEN [state |-> [s1 EXCEPT !.consecutive_hits = 0], triggered |-> FALSE, raised |-> NoStatus]
    ELSE LET hits == s1.consecutive_hits + 1 IN
         [state |-> [s1 EXCEPT !.consecutive_hits = hits],
          triggered |-> ~(hits < Required(rule)), raised |-> NoStatus]

\* One channel of a rule: [type, has_target, enabled].  net is what the
\* network does to this request's sends: net.webhook in {"ok","http_error",
\* "exception"}, net.email in {"ok","exception","unconfigured"}.
_send_email_alert(net) ==
  CASE net.email = "unconfigured" -> [type |-> "email", status |-> "failed", detail |-> "smtp not configured"]
    [] net.email = "exception" -> [type |-> "email", status |-> "failed", detail |-> "exception"]
    [] OTHER -> [type |-> "email", status |-> "sent", detail |-> ""]

\* A faulty variant: an HTTP error answer counts as a delivered webhook.
_send_webhook_alert_ignoring_http_status(net) ==
  CASE net.webhook = "exception" -> [type |-> "webhook", status |-> "failed", detail |-> "exception"]
    [] OTHER -> [type |-> "webhook", status |-> "sent", detail |-> ""]

_send_webhook_alert(net) ==
  CASE net.webhook = "exception" -> [type |-> "webhook", status |-> "failed", detail |-> "exception"]
    [] net.webhook = "http_error" -> [type |-> "webhook", status |-> "failed", detail |-> "HTTP 500"]
    [] OTHER -> [type |-> "webhook", status |-> "sent", detail |-> ""]

ChannelResult(channel, net) ==
  IF ~channel.enabled THEN [type |-> channel.type, status |-> "skipped", detail |-> "disabled"]
  ELSE IF ~channel.has_target THEN [type |-> channel.type, status |-> "failed", detail |-> "missing target"]
  ELSE IF channel.type = "email" THEN _send_email_alert(net)
  ELSE IF channel.type = "webhook" THEN _send_webhook_alert(net)
  ELSE [type |-> channel.type, status |-> "skipped", detail |-> "unsupported"]

AnyStatus(results, st) == \E i \in 1..Len(results) : results[i].status = st

RECURSIVE FailedDetails(_)
\* [item.detail for item in results if failed and detail], later "; ".join()ed.
FailedDetails(results) ==
  IF Len(results) = 0 THEN <<>>
  ELSE (IF Head(results).status = "failed" /\ Head(results).detail # ""
        THEN <<Head(results).detail>> ELSE <<>>) \o FailedDetails(Tail(results))

\* A faulty variant: one delivered channel makes the event sent, whatever failed.
_dispatch_alert_event_sent_first(rule, event, net) ==
  LET results == IF Len(rule.channels) = 0
                 THEN <<[type |-> "none", status |-> "skipped", detail |-> "no channels"]>>
                 ELSE [i \in 1..Len(rule.channels) |-> ChannelResult(rule.channels[i], net)] IN
  IF AnyStatus(results, "sent")
  THEN [event EXCEPT !.channel_results = results, !.status = "sent"]
  ELSE IF AnyStatus(results, "failed")
  THEN [event EXCEPT !.channel_results = results, !.status = "failed", !.error = FailedDetails(results)]
  ELSE [event EXCEPT !.channel_results = results, !.status = "skipped"]

_dispatch_alert_event(rule, event, net) ==
  LET results == IF Len(rule.channels) = 0
                 THEN <<[type |-> "none", status |-> "skipped", detail |-> "no channels"]>>
                 ELSE [i \in 1..Len(rule.channels) |-> ChannelResult(rule.channels[i], net)] IN
  IF AnyStatus(results, "failed")
  THEN [event EXCEPT !.channel_results = results, !.status = "failed", !.error = FailedDetails(results)]
  ELSE IF AnyStatus(results, "sent")
  THEN [event EXCEPT !.channel_results = results, !.status = "sent"]
  ELSE [event EXCEPT !.channel_results = results, !.status = "skipped"]

\* A send of the rule's channels that fails under net: an enabled channel with
\* a target whose webhook POST raises or answers HTTP >= 400, or whose mail
\* send raises; or the dispatch call itself raising.
SendFails(rule, net) ==
  \/ net.dispatch = "raise"
  \/ \E i \in 1..Len(rule.channels) :
       /\ rule.channels[i].enabled /\ rule.channels[i].has_target
       /\ \/ rule.channels[i].type = "webhook" /\ net.webhook \in {"http_error", "exception"}
          \/ rule.channels[i].type = "email" /\ net.email = "exception"

\* A faulty variant: the fire resets the counter and stamps nothing.
StampFired_not_stamping(state, event) ==
  [state EXCEPT !.consecutive_hits = 0]

\* A faulty variant: the fire stamps the time and keeps the counter.
StampFired_keeping_hits(state, event) ==
  [state EXCEPT !.last_triggered_at = event.triggered_at]

\* After an actual fire: stamp last_triggered_at and reset the counter.
StampFired(state, event) ==
  [state EXCEPT !.last_triggered_at = event.triggered_at, !.consecutive_hits = 0]

NewAlertEvent(rule, crawler, t) ==
  [rule_id |-> rule.id, crawler_id |-> crawler.id, user_id |-> rule.user_id,
   triggered_at |-> t, status |-> "pending", channel_results |-> <<>>, error |-> <<>>]

\* The body of the loop of _evaluate_alert_rules for one rule.  acc is the
\* session so far: [states, events, rules, raised]; acc.failed_sends notes the
\* rules one of whose sends failed during this request.
EvaluateOneRule(acc, rule, crawler, previous_status, t, db_ok, net) ==
  IF ~_match_alert_rule_target(rule, crawler) THEN acc
  ELSE
    LET got == _get_or_create_alert_state(acc.states, rule, crawler, db_ok) IN
    IF got.raised # NoStatus THEN [acc EXCEPT !.raised = got.raised]
    ELSE
      LET key == <<rule.id, crawler.id>> IN
      LET ev == IF rule.trigger_type = "status_offline"
                THEN _evaluate_status_rule(rule, got.state, previous_status, crawler.status)
                ELSE IF rule.trigger_type = "payload_threshold"
                THEN _evaluate_payload_rule(rule, got.state, crawler.heartbeat_payload)
                ELSE [state |-> got.state, triggered |-> FALSE, raised |-> NoStatus] IN
      IF ev.raised # NoStatus THEN [acc EXCEPT !.raised = ev.raised]
      ELSE IF ~ev.triggered \/ _in_cooldown(rule, ev.state, t)
      THEN [acc EXCEPT !.states = (key :> ev.state) @@ acc.states]
      ELSE IF ~db_ok THEN [acc EXCEPT !.raised = "OperationalError"]
      ELSE
        LET pending == NewAlertEvent(rule, crawler, t) IN
        LET event == IF net.dispatch = "raise"
                     THEN [pending EXCEPT !.status = "failed", !.error = <<"dispatch exception">>]
                     ELSE _dispatch_alert_event(rule, pending, net) IN
        LET fired == StampFired(ev.state, event) IN
        [acc EXCEPT !.states = (key :> fired) @@ acc.states,
                    !.events = Append(acc.events, event),
                    !.failed_sends = IF SendFails(rule, net) THEN @ \cup {rule.id} ELSE @,
                    !.rules = [acc.rules EXCEPT ![rule.id].last_triggered_at = event.triggered_at]]

RECURSIVE EvaluateFrom(_, _, _, _, _, _, _)
EvaluateFrom(i, acc, crawler, previous_status, t, db_ok, net) ==
  IF i > Len(acc.rules) \/ acc.raised # NoStatus THEN acc
  ELSE LET rule == acc.rules[i] IN
       EvaluateFrom(i + 1,
         IF rule.user_id = crawler.user_id /\ rule.is_active
         THEN EvaluateOneRule(acc, rule, crawler, previous_status, t, db_ok, net)
         ELSE acc,
         crawler, previous_status, t, db_ok, net)

_evaluate_alert_rules(crawler, previous_status, t, db_ok, net) ==
  EvaluateFrom(1, [states |-> alert_states, events |-> alert_events,
                   rules |-> rules, raised |-> NoStatus, failed_sends |-> {}],
               crawler, previous_status, t, db_ok, net)

\* ------------------------------------------------------- registration, runs
CrawlerOfKey(k) == {i \in 1..Len(crawlers) : crawlers[i].api_key_id = k}

NewCrawler(k, t) ==
  [id |-> Len(crawlers) + 1, user_id |-> KeyUser(k), api_key_id |-> k, group_id |-> KeyGroup(k),
   status |-> "offline", status_changed_at |-> t, last_heartbeat |-> NoTime,
   heartbeat_payload |-> MissingValue]

\* _get_or_bind_crawler: the crawler bound to the key, created on first use.
_get_or_bind_crawler(k, t) ==
  IF CrawlerOfKey(k) # {} THEN crawlers
  ELSE Append(crawlers, NewCrawler(k, t))

register_crawler(k, gap) ==
  LET t == clock + gap IN
  /\ clock' = t
  /\ UNCHANGED other_tables
  /\ crawlers' = _get_or_bind_crawler(k, t)
  /\ response' = [op |-> "register", code |-> 200,
                  crawler_id |-> CHOOSE i \in 1..Len(crawlers') : crawlers'[i].api_key_id = k]
  /\ UNCHANGED <<heartbeats, runs, rules, alert_states, alert_events, commands>>

\* The crawler a worker request addresses, NoId when the lookup finds none
\* (filter: Crawler.id == crawler_id, Crawler.user_id == api_key.user_id).
OwnedCrawler_any_account(k, cid) == IF cid \in 1..Len(crawlers) THEN cid ELSE NoId

OwnedCrawler(k, cid) ==
  IF cid \in 1..Len(crawlers) /\ crawlers[cid].user_id = KeyUser(k) THEN cid ELSE NoId

start_run(k, cid, gap) ==
  LET t == clock + gap IN
  /\ clock' = t
  /\ UNCHANGED other_tables
  /\ IF OwnedCrawler(k, cid) = NoId
     THEN /\ response' = [op |-> "start_run", code |-> 404, crawler_id |-> cid]
          /\ UNCHANGED runs
     ELSE /\ runs' = Append(runs, [crawler_id |-> cid, status |-> "running",
                                   started_at |-> t, last_heartbeat |-> NoTime])
          /\ response' = [op |-> "start_run", code |-> 200, crawler_id |-> cid]
  /\ UNCHANGED <<crawlers, heartbeats, rules, alert_states, alert_events, commands>>

\* ---------------------------------------------------------------- heartbeat
_update_crawler_status_always_stamping(crawler, heartbeat_time, payload_status, t) ==
  LET c1 == IF heartbeat_time # NoTime THEN [crawler EXCEPT !.last_heartbeat = heartbeat_time]
            ELSE crawler IN
  LET status == IF payload_status \notin {NoStatus, ""} THEN payload_status
                ELSE _compute_status(c1.last_heartbeat, t) IN
  [c1 EXCEPT !.status = status, !.status_changed_at = t]

_update_crawler_status(crawler, heartbeat_time, payload_status, t) ==
  LET c1 == IF heartbeat_time # NoTime THEN [crawler EXCEPT !.last_heartbeat = heartbeat_time]
            ELSE crawler IN
  \* `payload_status or ...`: None and the empty string give the derived status
  LET status == IF payload_status \notin {NoStatus, ""} THEN payload_status
                ELSE _compute_status(c1.last_heartbeat, t) IN
  IF status # c1.status
  THEN [c1 EXCEPT !.status = status, !.status_changed_at = t]
  ELSE c1

\* The running run the heartbeat is mirrored onto: the one started last.
ActiveRun(cid) ==
  LET running == {i \in 1..Len(runs) : runs[i].crawler_id = cid /\ runs[i].status = "running"} IN
  IF running = {} THEN NoId
  ELSE CHOOSE i \in running : \A j \in running :
         runs[j].started_at < runs[i].started_at \/ (runs[j].started_at = runs[i].started_at /\ j <= i)

heartbeat(k, cid, gap, status_hint, payload, db_ok, net) ==
  LET current_time == clock + gap IN
  /\ clock' = current_time
  /\ UNCHANGED other_tables
  /\ UNCHANGED commands
  /\ IF OwnedCrawler(k, cid) = NoId
     THEN /\ response' = [op |-> "heartbeat", code |-> 404, crawler_id |-> cid,
                          status |-> NoStatus, raised |-> NoStatus, failed_sends |-> {}]
          /\ UNCHANGED <<crawlers, heartbeats, runs, rules, alert_states, alert_events>>
     ELSE
       LET previous_status == crawlers[cid].status IN
       LET c1 == _update_crawler_status(crawlers[cid], current_time, status_hint, current_time) IN
       LET crawler == [c1 EXCEPT !.heartbeat_payload = payload] IN
       LET row == [crawler_id |-> cid, status |-> crawler.status, created_at |-> current_time] IN
       LET run == ActiveRun(cid) IN
       LET done == _evaluate_alert_rules(crawler, previous_status, current_time, db_ok, net) IN
       IF done.raised # NoStatus
       THEN \* the exception leaves the handler before db.commit(): the session is discarded
            /\ response' = [op |-> "heartbeat", code |-> 500, crawler_id |-> cid,
                            status |-> NoStatus, raised |-> done.raised,
                            failed_sends |-> done.failed_sends]
            /\ UNCHANGED <<crawlers, heartbeats, runs, rules, alert_states, alert_events>>
       ELSE /\ crawlers' = [crawlers EXCEPT ![cid] = crawler]
            /\ heartbeats' = Append(heartbeats, row)
            /\ runs' = IF run = NoId THEN runs
                       ELSE [runs EXCEPT ![run].last_heartbeat = current_time]
            /\ alert_states' = done.states
            /\ alert_events' = done.events
            /\ rules' = done.rules
            /\ response' = [op |-> "heartbeat", code |-> 200, crawler_id |-> cid,
                            status |-> crawler.status, raised |-> NoStatus,
                            failed_sends |-> done.failed_sends]

\* ------------------------------------------------------------ initial states
Channel(type, has_target, enabled) == [type |-> type, has_target |-> has_target, enabled |-> enabled]

Rule(id, user_id, trigger_type, target_type, target_ids, comparator, threshold, consecutive_failures, cooldown_minutes, channels) ==
  [id |-> id, user_id |-> user_id, is_active |-> TRUE, trigger_type |-> trigger_type,
   target_type |-> target_type, target_ids |-> target_ids,
   payload_field |-> IF trigger_type = "payload_threshold" THEN "cpu" ELSE NoStatus,
   comparator |-> comparator, threshold |-> threshold,
   consecutive_failures |-> consecutive_failures, cooldown_minutes |-> cooldown_minutes,
   channels |-> channels, last_triggered_at |-> NoTime]

\* No request in flight, the process's dictionaries empty, no file token
\* stored, the schema as declared.
\* The schema as the models declare it (models.py: uq_crawlers_api_key_id).
DeclaredSchema == [uq_crawlers_api_key_id |-> TRUE]

NoProcessState == memory = <<>> /\ requests = <<>> /\ file_tokens = {} /\ schema = DeclaredSchema

EmptyTables ==
  /\ clock = 0
  /\ crawlers = <<>>
  /\ heartbeats = <<>>
  /\ runs = <<>>
  /\ alert_states = <<>>
  /\ alert_events = <<>>
  /\ commands = <<>>
  /\ response = [op |-> "none", code |-> 0, crawler_id |-> NoId]
  /\ logs = <<>>
  /\ log_request = IdleRequest
  /\ assignments = <<>>
  /\ api_keys = <<>>

EmptyStore == EmptyTables /\ NoProcessState

\* The rules the operator has created (create_alert_rule) before the workers start.
InitAlert ==
  /\ EmptyStore
  /\ \E p \in {<<1, "gt", 1, 2>>, <<2, "le", 2, 0>>} :
       rules = << Rule(1, 1, "status_offline", "all", {}, NoStatus, NoNumber, p[1], 2,
                       <<Channel("webhook", TRUE, TRUE)>>),
                  Rule(2, 1, "payload_threshold", "api_key", {1}, p[2], 5, p[3], p[4],
                       <<Channel("email", TRUE, TRUE), Channel("webhook", TRUE, FALSE)>>),
                  [Rule(3, 1, "status_offline", "all", {}, NoStatus, NoNumber, 1, 0, <<>>)
                     EXCEPT !.is_active = FALSE],
                  Rule(4, 2, "status_offline", "all", {}, NoStatus, NoNumber, 1, 0, <<>>) >>

\* The rule of the offline-heartbeat scenario, and no other.
InitScenario ==
  /\ EmptyStore
  /\ rules = << Rule(1, 1, "status_offline", "all", {}, NoStatus, NoNumber, 3, 10,
                     <<Channel("webhook", TRUE, TRUE)>>) >>

\* ------------------------------------------------------------------ inputs
Gaps == {1, 2}
ScenarioGaps == {1, 10}
StatusHints == {NoStatus, "offline"}
ScenarioHints == {NoStatus, "offline", "online"}
PayloadValues == {MissingValue, PayloadValue("int", 3), PayloadValue("int", 7),
                  PayloadValue("text", 0), PayloadValue("numtext", 7), PayloadValue("bigint", 0)}
\* What the environment does to one request: db_ok, whether the store accepts
\* the flushes of the alert step; net, the fate of the channel sends.
NetOk == [webhook |-> "ok", email |-> "ok", dispatch |-> "ok"]
Envs == {[db_ok |-> TRUE, net |-> NetOk],
         [db_ok |-> FALSE, net |-> NetOk],
         [db_ok |-> TRUE, net |-> [webhook |-> "http_error", email |-> "exception", dispatch |-> "ok"]],
         [db_ok |-> TRUE, net |-> [webhook |-> "exception", email |-> "unconfigured", dispatch |-> "ok"]],
         [db_ok |-> TRUE, net |-> [webhook |-> "ok", email |-> "ok", dispatch |-> "raise"]]}
\* Heartbeat bodies and what happens to the request: every payload under a
\* working store and network, and the payloads that make the threshold rules
\* fire under each failure.
HeartbeatInputs ==
  {<<payload, [db_ok |-> TRUE, net |-> NetOk]>> : payload \in PayloadValues}
  \cup {<<payload, env>> : payload \in {PayloadValue("int", 3), PayloadValue("int", 7)}, env \in Envs}
CrawlerIds == 1..Cardinality(ApiKeys)

\* The workers of account 1 report; account 2 owns a rule but runs no worker here.
AlertKeys == {1}

NextAlert ==
  \/ \E k \in AlertKeys : CrawlerOfKey(k) = {} /\ register_crawler(k, 0)
  \/ \E k \in AlertKeys, cid \in CrawlerIds, gap \in Gaps :
       clock + gap <= MaxClock /\ Len(runs) < MaxRuns /\ start_run(k, cid, gap)
  \/ \E k \in AlertKeys, cid \in CrawlerIds, gap \in Gaps, hint \in StatusHints,
        in \in HeartbeatInputs :
       /\ clock + gap <= MaxClock /\ Len(heartbeats) < MaxHeartbeats
       /\ OwnedCrawler(k, cid) # NoId
       /\ heartbeat(k, cid, gap, hint, in[1], in[2].db_ok, in[2].net)
  \/ \E k \in AlertKeys, cid \in CrawlerIds, gap \in Gaps :
       /\ clock + gap <= MaxClock /\ OwnedCrawler(k, cid) = NoId
       /\ heartbeat(k, cid, gap, NoStatus, MissingValue, TRUE, NetOk)

SpecAlert == InitAlert /\ [][NextAlert]_vars

NextScenario ==
  \/ \E gap \in ScenarioGaps :
       clock + gap <= MaxScenarioClock /\ CrawlerOfKey(1) = {} /\ register_crawler(1, gap)
  \/ \E gap \in ScenarioGaps, hint \in ScenarioHints :
       clock + gap <= MaxScenarioClock /\ Len(heartbeats) < MaxScenarioBeats
       /\ heartbeat(1, 1, gap, hint, MissingValue, TRUE, NetOk)

SpecScenario == InitScenario /\ [][NextScenario]_vars

\* ------------------------------------------------------------ command queue
NoResult == "null"       \* a NULL JSON column
EmptyResult == "{}"      \* the empty JSON object

\* Operator request (session of account user): queue a command for a crawler.
\* expires_in_seconds is 0 when the field is absent.
create_crawler_command(user, cid, gap, expires_in_seconds) ==
  LET t == clock + gap IN
  /\ clock' = t
  /\ UNCHANGED other_tables
  /\ UNCHANGED <<crawlers, heartbeats, runs, rules, alert_states, alert_events>>
  /\ IF ~(cid \in 1..Len(crawlers) /\ crawlers[cid].user_id = user)
     THEN /\ response' = [op |-> "create_command", code |-> 404, crawler_id |-> NoId, ids |-> <<>>]
          /\ UNCHANGED commands
     ELSE LET expires_at == IF expires_in_seconds # 0
                            THEN t + expires_in_seconds \div SecondsPerMinute ELSE NoTime IN
          LET command == [id |-> Len(commands) + 1, crawler_id |-> cid, status |-> "pending",
                          result |-> NoResult, created_at |-> t, processed_at |-> NoTime,
                          expires_at |-> expires_at] IN
          /\ commands' = Append(commands, command)
          /\ response' = [op |-> "create_command", code |-> 201, crawler_id |-> cid,
                          ids |-> <<command.id>>]

\* A faulty variant: the pull ignores expires_at.
Fetchable_ignoring_expiry(cid, t) ==
  {i \in 1..Len(commands) : commands[i].crawler_id = cid /\ commands[i].status = "pending"}

\* WHERE crawler_id = :cid AND status = 'pending' AND (expires_at IS NULL OR expires_at >= now)
Fetchable(cid, t) ==
  {i \in 1..Len(commands) : /\ commands[i].crawler_id = cid
                            /\ commands[i].status = "pending"
                            /\ (commands[i].expires_at = NoTime \/ commands[i].expires_at >= t)}

RECURSIVE OrderedBy(_)
\* ORDER BY created_at ASC: every order of the rows of S the sort may produce
\* (rows with equal created_at come in an order the store chooses).
OrderedBy(S) ==
  IF S = {} THEN {<<>>}
  ELSE UNION {{<<m>> \o rest : rest \in OrderedBy(S \ {m})} :
              m \in {x \in S : \A y \in S : commands[x].created_at <= commands[y].created_at}}

\* ... LIMIT COMMAND_FETCH_BATCH
Limit(seq, n) == SubSeq(seq, 1, Min(Len(seq), n))

Elements(seq) == {seq[i] : i \in 1..Len(seq)}

\* A faulty variant: the pull marks what it returns as accepted.
fetch_commands_consuming(k, cid, gap) ==
  LET t == clock + gap IN
  /\ clock' = t
  /\ UNCHANGED other_tables
  /\ UNCHANGED <<crawlers, heartbeats, runs, rules, alert_states, alert_events>>
  /\ IF OwnedCrawler(k, cid) = NoId
     THEN /\ response' = [op |-> "fetch_commands", code |-> 404, crawler_id |-> NoId, ids |-> <<>>]
          /\ UNCHANGED commands
     ELSE \E rows \in OrderedBy(Fetchable(cid, t)) :
            /\ response' = [op |-> "fetch_commands", code |-> 200, crawler_id |-> cid,
                            ids |-> Limit(rows, COMMAND_FETCH_BATCH)]
            /\ commands' = [i \in 1..Len(commands) |->
                              IF i \in Elements(Limit(rows, COMMAND_FETCH_BATCH))
                              THEN [commands[i] EXCEPT !.status = "accepted"]
                              ELSE commands[i]]

fetch_commands(k, cid, gap) ==
  LET t == clock + gap IN
  /\ clock' = t
  /\ UNCHANGED other_tables
  /\ UNCHANGED <<crawlers, heartbeats, runs, rules, alert_states, alert_events, commands>>
  /\ IF OwnedCrawler(k, cid) = NoId
     THEN response' = [op |-> "fetch_commands", code |-> 404, crawler_id |-> NoId, ids |-> <<>>]
     ELSE \E rows \in OrderedBy(Fetchable(cid, t)) :
            response' = [op |-> "fetch_commands", code |-> 200, crawler_id |-> cid,
                         ids |-> Limit(rows, COMMAND_FETCH_BATCH)]

\* The command the acknowledge addresses, NoId when the lookup finds none.
OwnedCommand(k, cid, command_id) ==
  IF /\ command_id \in 1..Len(commands)
     /\ commands[command_id].crawler_id = cid
     /\ cid \in 1..Len(crawlers) /\ crawlers[cid].user_id = KeyUser(k)
  THEN command_id ELSE NoId

\* A faulty variant: a command that has been acknowledged refuses a second
\* acknowledge with 409.
acknowledge_command_once(k, cid, command_id, gap, status, result) ==
  LET t == clock + gap
      request == [api_key |-> k, crawler_id |-> cid, command_id |-> command_id,
                  status |-> status, result |-> result]
      found == OwnedCommand(k, cid, command_id) # NoId IN
  /\ clock' = t
  /\ UNCHANGED other_tables
  /\ UNCHANGED <<crawlers, heartbeats, runs, rules, alert_states, alert_events>>
  /\ IF ~found \/ commands[command_id].processed_at # NoTime
     THEN /\ response' = [op |-> "acknowledge_command", code |-> IF found THEN 409 ELSE 404,
                          crawler_id |-> NoId, ids |-> <<>>, repeated |-> FALSE,
                          request |-> request]
          /\ UNCHANGED commands
     ELSE /\ commands' = [commands EXCEPT ![command_id] =
                            [@ EXCEPT !.status = IF status # NoStatus THEN status ELSE "done",
                                      !.result = IF result \notin {NoResult, EmptyResult}
                                                 THEN result ELSE EmptyResult,
                                      !.processed_at = t]]
          /\ response' = [op |-> "acknowledge_command", code |-> 200, crawler_id |-> cid,
                          ids |-> <<command_id>>, repeated |-> FALSE, request |-> request]

\* status and result are NoStatus / NoResult when the body leaves them out.
\* The response records the request it answers, and in repeated whether the
\* row had been acknowledged before this request.
acknowledge_command(k, cid, command_id, gap, status, result) ==
  LET t == clock + gap
      request == [api_key |-> k, crawler_id |-> cid, command_id |-> command_id,
                  status |-> status, result |-> result] IN
  /\ clock' = t
  /\ UNCHANGED other_tables
  /\ UNCHANGED <<crawlers, heartbeats, runs, rules, alert_states, alert_events>>
  /\ IF OwnedCommand(k, cid, command_id) = NoId
     THEN /\ response' = [op |-> "acknowledge_command", code |-> 404, crawler_id |-> NoId,
                          ids |-> <<>>, repeated |-> FALSE, request |-> request]
          /\ UNCHANGED commands
     ELSE /\ commands' = [commands EXCEPT ![command_id] =
                            [@ EXCEPT !.status = IF status # NoStatus THEN status ELSE "done",
                                      !.result = IF result \notin {NoResult, EmptyResult}
                                                 THEN result ELSE EmptyResult,
                                      !.processed_at = t]]
          /\ response' = [op |-> "acknowledge_command", code |-> 200, crawler_id |-> cid,
                          ids |-> <<command_id>>,
                          repeated |-> commands[command_id].processed_at # NoTime,
                          request |-> request]

\* ---- the queue under load (SpecFetch): enough commands to fill a batch.
\* Time passes between the creations only, so the clock stays below the
\* number of commands.
MaxCommands == 6         \* crawler_commands rows
MaxSameTick == 1         \* commands created within one tick of the clock
MaxSpecial == 1          \* commands of another crawler, with an expiry, or acknowledged
FetchGaps == {0, 1}
ExpiresIn == {0, 60}

CreatedAt(t) == {i \in 1..Len(commands) : commands[i].created_at = t}
OtherCommands == {i \in 1..Len(commands) : commands[i].crawler_id # 1}
Expiring == {i \in 1..Len(commands) : commands[i].expires_at # NoTime}
Acked == {i \in 1..Len(commands) : commands[i].processed_at # NoTime}
Special == Cardinality(OtherCommands) + Cardinality(Expiring) + Cardinality(Acked)

InitFetch ==
  /\ EmptyStore
  /\ rules = <<>>

\* (key, crawler) pairs of the requests: each worker on its own crawler, and
\* the worker of key 2 on the crawler of another account.
Callers == {<<1, 1>>, <<2, 2>>, <<2, 1>>}

NextFetch ==
  \/ \E k \in ApiKeys : Len(crawlers) = k - 1 /\ Len(commands) = 0 /\ register_crawler(k, 0)
  \/ \E cid \in CrawlerIds, gap \in FetchGaps, e \in ExpiresIn :
       /\ Len(commands) < MaxCommands
       /\ cid \in 1..Len(crawlers)
       /\ Cardinality(CreatedAt(clock + gap)) < MaxSameTick
       /\ Special + (IF cid # 1 THEN 1 ELSE 0) + (IF e # 0 THEN 1 ELSE 0) <= MaxSpecial
       /\ create_crawler_command(crawlers[cid].user_id, cid, gap, e)
  \/ \E cid \in CrawlerIds :
       /\ ~(cid \in 1..Len(crawlers) /\ crawlers[cid].user_id = 2)
       /\ create_crawler_command(2, cid, 0, 0)
  \/ \E c \in Callers : fetch_commands(c[1], c[2], 0)
  \/ \E id \in Fetchable(1, clock) :
       /\ Special + 1 <= MaxSpecial
       /\ acknowledge_command(1, 1, id, 0, "success", NoResult)

SpecFetch == InitFetch /\ [][NextFetch]_vars

\* ---- acknowledgements (SpecAck): few commands, every kind of ack body
MaxAckCommands == 1      \* crawler_commands rows
MaxAckClock == 1         \* last tick of the clock
AckGaps == {0, 1}
AckStatuses == {NoStatus, "pending", "success", "failed"}
AckResults == {NoResult, "r1"}

NextAck ==
  \/ \E k \in ApiKeys : Len(crawlers) = k - 1 /\ register_crawler(k, 0)
  \/ \E c \in {<<1, 1>>, <<2, 1>>}, gap \in AckGaps :
       /\ clock + gap <= MaxAckClock /\ Len(commands) < MaxAckCommands
       /\ create_crawler_command(KeyUser(c[1]), c[2], gap, 0)
  \/ \E c \in Callers, gap \in AckGaps :
       clock + gap <= MaxAckClock /\ fetch_commands(c[1], c[2], gap)
  \/ \E id \in 1..Len(commands), gap \in AckGaps, status \in AckStatuses, result \in AckResults :
       clock + gap <= MaxAckClock /\ acknowledge_command(1, 1, id, gap, status, result)
  \/ \E c \in Callers, id \in 1..MaxAckCommands :
       /\ OwnedCommand(c[1], c[2], id) = NoId
       /\ acknowledge_command(c[1], c[2], id, 0, "success", NoResult)

SpecAck == InitFetch /\ [][NextAck]_vars


\* -------------------------------------------------------------- log quota
\* An ORM object is a record of its mapped columns; reading an attribute the
\* class does not map raises AttributeError.
HasAttr(obj, name) == name \in DOMAIN obj

\* crawler.log_max_lines / log_max_bytes: None falls back to the settings
\* default, a value <= 0 means no ceiling (NoNumber).
_effective_crawler_limits(crawler) ==
  IF ~HasAttr(crawler, "log_max_lines") \/ ~HasAttr(crawler, "log_max_bytes")
  THEN [raised |-> "AttributeError", max_lines |-> NoNumber, max_bytes |-> NoNumber]
  ELSE [raised |-> NoStatus,
        max_lines |-> IF crawler.log_max_lines = NoNumber THEN DEFAULT_CRAWLER_LOG_MAX_LINES
                      ELSE IF crawler.log_max_lines <= 0 THEN NoNumber
                      ELSE crawler.log_max_lines,
        max_bytes |-> IF crawler.log_max_bytes = NoNumber THEN DEFAULT_CRAWLER_LOG_MAX_BYTES
                      ELSE IF crawler.log_max_bytes <= 0 THEN NoNumber
                      ELSE crawler.log_max_bytes]

_effective_user_quota(user) ==
  IF ~HasAttr(user, "log_quota_bytes")
  THEN [raised |-> "AttributeError", quota |-> NoNumber]
  ELSE [raised |-> NoStatus,
        quota |-> IF user.log_quota_bytes = NoNumber THEN DEFAULT_USER_LOG_QUOTA_BYTES
                  ELSE IF user.log_quota_bytes <= 0 THEN NoNumber
                  ELSE user.log_quota_bytes]

RECURSIVE SumSizes(_, _)
SumSizes(rows, i) == IF i > Len(rows) THEN 0 ELSE rows[i].size + SumSizes(rows, i + 1)

\* The log rows the query's filter keeps, in id order.
RowsOf(rows, cids) == SelectSeq(rows, LAMBDA r : r.crawler_id \in cids)

UserCrawlers(user_id) == {c \in 1..Len(crawlers) : crawlers[c].user_id = user_id}

_measure_crawler_usage(rows, crawler_id) ==
  LET mine == RowsOf(rows, {crawler_id})
  IN  [lines |-> Len(mine), bytes |-> SumSizes(mine, 1)]

_measure_user_usage(rows, user_id) ==
  LET mine == RowsOf(rows, UserCrawlers(user_id))
  IN  [lines |-> Len(mine), bytes |-> SumSizes(mine, 1)]

\* A faulty variant: the last n rows by id.
OldestIds_newest_first(rows, cids, n) ==
  LET mine == RowsOf(rows, cids)
  IN  {mine[i].id : i \in (Len(mine) - Min(Max(0, n), Len(mine)) + 1)..Len(mine)}

\* The ids of the first n rows among those of the given crawlers, by id
\* ascending, and the table without them.
OldestIds(rows, cids, n) ==
  LET mine == RowsOf(rows, cids)
  IN  {mine[i].id : i \in 1..Min(Max(0, n), Len(mine))}

_delete_oldest_crawler_logs(rows, crawler_id, n) ==
  LET ids == OldestIds(rows, {crawler_id}, n)
  IN  [rows |-> SelectSeq(rows, LAMBDA r : r.id \notin ids),
       deleted |-> Cardinality(ids)]

_delete_oldest_user_logs(rows, user_id, n) ==
  LET ids == OldestIds(rows, UserCrawlers(user_id), n)
  IN  [rows |-> SelectSeq(rows, LAMBDA r : r.id \notin ids),
       deleted |-> Cardinality(ids)]

\* need_delete of one pass of the trimming loop.
need_delete_lines_only(max_lines, max_bytes, lines, bytes) ==
  IF max_lines # NoNumber /\ lines > max_lines
  THEN Max(0, Min(TRIM_CHUNK, lines - max_lines)) ELSE 0

need_delete(max_lines, max_bytes, lines, bytes) ==
  LET by_lines == IF max_lines # NoNumber /\ lines > max_lines
                  THEN Max(0, Min(TRIM_CHUNK, lines - max_lines)) ELSE 0
  IN  IF max_bytes # NoNumber /\ bytes > max_bytes
      THEN Max(by_lines, TRIM_CHUNK) ELSE by_lines

\* The next INTEGER PRIMARY KEY of log_entries: one more than the largest.
NextLogId == IF Len(logs) = 0 THEN 1 ELSE logs[Len(logs)].id + 1

NewRequest(k, cid, log_id) ==
  [pc |-> "crawler_begin", api_key |-> k, crawler_id |-> cid, log_id |-> log_id,
   max_lines |-> NoNumber, max_bytes |-> NoNumber, quota |-> NoNumber,
   lines |-> 0, bytes |-> 0, loop_guard |-> 0,
   expired |-> FALSE, propagated |-> NoStatus, crawler_raised |-> NoStatus, user_raised |-> NoStatus]

other_than_logs == <<clock, crawlers, heartbeats, runs, rules, alert_states, alert_events, commands, assignments, api_keys, memory, requests, file_tokens, schema>>

\* `try: ... except Exception: pass` around each enforcement call of create_log.
except_pass_reraising(req, raised, next_pc) == [req EXCEPT !.pc = "return", !.propagated = raised]

except_pass(req, raised, next_pc) == [req EXCEPT !.pc = next_pc]

\* create_log up to db.commit() / db.refresh(log): the row is written.
create_log(k, cid, size) ==
  /\ log_request.pc = "idle"
  /\ UNCHANGED other_than_logs
  /\ IF OwnedCrawler(k, cid) = NoId
     THEN /\ response' = [op |-> "create_log", code |-> 404, crawler_id |-> NoId,
                          log_id |-> NoId, crawler_raised |-> NoStatus, user_raised |-> NoStatus]
          /\ UNCHANGED <<logs, log_request>>
     ELSE /\ logs' = Append(logs, [id |-> NextLogId, crawler_id |-> cid, size |-> size])
          /\ log_request' = NewRequest(k, cid, NextLogId)
          /\ UNCHANGED response

\* The loop test of _enforce_crawler_limits after a measurement: leave the
\* loop (and the function) or go on to the next delete.
AfterCrawlerMeasure_uncapped(req, usage, guard) ==
  IF need_delete(req.max_lines, req.max_bytes, usage.lines, usage.bytes) <= 0
  THEN [req EXCEPT !.pc = "user_begin", !.lines = usage.lines, !.bytes = usage.bytes,
                   !.loop_guard = guard]
  ELSE [req EXCEPT !.pc = "crawler_delete", !.lines = usage.lines, !.bytes = usage.bytes,
                   !.loop_guard = guard]

AfterCrawlerMeasure(req, usage, guard) ==
  IF \/ need_delete(req.max_lines, req.max_bytes, usage.lines, usage.bytes) <= 0
     \/ guard >= CrawlerLoopCap
  THEN [req EXCEPT !.pc = "user_begin", !.lines = usage.lines, !.bytes = usage.bytes,
                   !.loop_guard = guard]
  ELSE [req EXCEPT !.pc = "crawler_delete", !.lines = usage.lines, !.bytes = usage.bytes,
                   !.loop_guard = guard]

\* _enforce_crawler_limits, called by create_log with the crawler object it
\* loaded: the limits and the first measurement.
_enforce_crawler_limits(crawler) ==
  /\ log_request.pc = "crawler_begin"
  /\ UNCHANGED other_than_logs
  /\ UNCHANGED <<logs, response>>
  /\ LET limits == _effective_crawler_limits(crawler)
         req == [log_request EXCEPT !.max_lines = limits.max_lines,
                                    !.max_bytes = limits.max_bytes]
     IN  IF limits.raised # NoStatus
         THEN log_request' = except_pass([log_request EXCEPT !.crawler_raised = limits.raised],
                                         limits.raised, "user_begin")
         ELSE log_request' =
                AfterCrawlerMeasure(req, _measure_crawler_usage(logs, crawler.id), 0)

\* One _delete_oldest_crawler_logs of the loop; it commits when it deleted.
_enforce_crawler_limits_delete ==
  /\ log_request.pc = "crawler_delete"
  /\ UNCHANGED other_than_logs
  /\ UNCHANGED response
  /\ LET n == need_delete(log_request.max_lines, log_request.max_bytes,
                          log_request.lines, log_request.bytes)
         d == _delete_oldest_crawler_logs(logs, log_request.crawler_id, n)
     IN  /\ logs' = d.rows
         /\ log_request' = [log_request EXCEPT !.pc = "crawler_measure",
                              !.expired = log_request.expired \/ d.deleted > 0]

\* The re-measurement, loop_guard += 1 and the loop test.
_enforce_crawler_limits_measure ==
  /\ log_request.pc = "crawler_measure"
  /\ UNCHANGED other_than_logs
  /\ UNCHANGED <<logs, response>>
  /\ log_request' = AfterCrawlerMeasure(log_request,
                      _measure_crawler_usage(logs, log_request.crawler_id),
                      log_request.loop_guard + 1)

\* The loop test of _enforce_user_quota after a measurement.
AfterUserMeasure(req, usage, guard) ==
  [req EXCEPT !.pc = IF usage.bytes > req.quota /\ guard < UserLoopCap
                     THEN "user_delete" ELSE "return",
              !.lines = usage.lines, !.bytes = usage.bytes, !.loop_guard = guard]

\* _enforce_user_quota, called by create_log with api_key.user.
_enforce_user_quota(user) ==
  /\ log_request.pc = "user_begin"
  /\ UNCHANGED other_than_logs
  /\ UNCHANGED <<logs, response>>
  /\ LET q == _effective_user_quota(user)
         usage == _measure_user_usage(logs, user.id)
         req == [log_request EXCEPT !.quota = q.quota]
     IN  IF q.raised # NoStatus
         THEN log_request' = except_pass([log_request EXCEPT !.user_raised = q.raised],
                                         q.raised, "return")
         ELSE IF q.quota = NoNumber
         THEN log_request' = [req EXCEPT !.pc = "return", !.lines = usage.lines,
                                         !.bytes = usage.bytes, !.loop_guard = 0]
         ELSE log_request' = AfterUserMeasure(req, usage, 0)

\* One _delete_oldest_user_logs of the loop; nothing deleted ends the loop.
_enforce_user_quota_delete ==
  /\ log_request.pc = "user_delete"
  /\ UNCHANGED other_than_logs
  /\ UNCHANGED response
  /\ LET d == _delete_oldest_user_logs(logs, KeyUser(log_request.api_key), TRIM_CHUNK)
     IN  /\ logs' = d.rows
         /\ log_request' = [log_request EXCEPT
                              !.pc = IF d.deleted <= 0 THEN "return" ELSE "user_measure",
                              !.expired = log_request.expired \/ d.deleted > 0]

_enforce_user_quota_measure ==
  /\ log_request.pc = "user_measure"
  /\ UNCHANGED other_than_logs
  /\ UNCHANGED <<logs, response>>
  /\ log_request' = AfterUserMeasure(log_request,
                      _measure_user_usage(logs, KeyUser(log_request.api_key)),
                      log_request.loop_guard + 1)

\* `return log`: the response model reads the row's columns. A commit made
\* by a delete has expired the object, so it is loaded again, and a row that
\* is gone raises ObjectDeletedError.
create_log_return ==
  /\ log_request.pc = "return"
  /\ UNCHANGED other_than_logs
  /\ UNCHANGED logs
  /\ LET gone == /\ log_request.expired
                 /\ \A i \in 1..Len(logs) : logs[i].id # log_request.log_id
         failed == gone \/ log_request.propagated # NoStatus
     IN  response' = [op |-> "create_log", code |-> IF failed THEN 500 ELSE 201,
                      crawler_id |-> log_request.crawler_id,
                      log_id |-> IF failed THEN NoId ELSE log_request.log_id,
                      crawler_raised |-> log_request.crawler_raised,
                      user_raised |-> log_request.user_raised]
  /\ log_request' = IdleRequest

\* The commit of another worker's create_log while this request is between
\* two of its own statements.
concurrent_create_log(k, cid, size) ==
  /\ log_request.pc \notin {"idle", "return"}
  /\ OwnedCrawler(k, cid) # NoId
  /\ UNCHANGED other_than_logs
  /\ UNCHANGED <<log_request, response>>
  /\ logs' = Append(logs, [id |-> NextLogId, crawler_id |-> cid, size |-> size])

\* PATCH /me/{crawler_id}: the log ceilings of the payload are set on the
\* loaded object and shown in the response; the crawlers table has no such
\* columns, so db.commit() stores nothing of them.
update_my_crawler(user, cid, log_max_lines) ==
  /\ log_request.pc = "idle"
  /\ UNCHANGED other_than_logs
  /\ UNCHANGED <<logs, log_request>>
  /\ IF cid \in 1..Len(crawlers) /\ crawlers[cid].user_id = user
     THEN response' = [op |-> "update_crawler", code |-> 200, crawler_id |-> cid,
                       log_max_lines |-> log_max_lines]
     ELSE response' = [op |-> "update_crawler", code |-> 404, crawler_id |-> NoId,
                       log_max_lines |-> NoNumber]

\* ---- log writes as the service runs them (SpecLog)
LogSizes == {1, 2}
LogCallers == {<<1, 1>>, <<2, 1>>}

\* The operator's PATCH with the line ceiling has been answered with 200.
CeilingAsked ==
  \/ response.op = "create_log"
  \/ response.op = "update_crawler" /\ response.code = 200

\* The crawler registers, the operator sets its line ceiling, then the
\* workers write log lines one request at a time.
NextLog ==
  \/ /\ Len(crawlers) = 0
     /\ register_crawler(1, 0)
  \/ \E cid \in {1, 2} :
       /\ Len(crawlers) = 1 /\ Len(logs) = 0
       /\ update_my_crawler(1, cid, AskedMaxLines)
  \/ \E c \in LogCallers, size \in LogSizes :
       /\ CeilingAsked /\ Len(logs) < MaxLogs
       /\ create_log(c[1], c[2], size)
  \/ _enforce_crawler_limits(crawlers[log_request.crawler_id])
  \/ _enforce_user_quota([id |-> KeyUser(log_request.api_key)])
  \/ create_log_return

\* No crawler, no log row, no alert rule.
InitLog ==
  /\ EmptyStore
  /\ rules = <<>>

SpecLog == InitLog /\ [][NextLog]_vars

\* ---- the enforcement functions on objects that carry the limit attributes
\* (SpecQuota), with other workers writing between their statements
CrawlerLimits == {<<2, 0>>, <<NoNumber, 3>>, <<0, 0>>}
UserQuotas == {NoNumber, 0, 3}
QuotaSizes == {2}

WithLimits(crawler, l) == crawler @@ [log_max_lines |-> l[1], log_max_bytes |-> l[2]]

NextQuota ==
  \/ /\ Len(crawlers) = 0
     /\ register_crawler(1, 0)
  \/ \E size \in QuotaSizes :
       /\ Len(logs) < MaxLogRows /\ NextLogId <= MaxLogId
       /\ create_log(1, 1, size)
  \/ \E l \in CrawlerLimits :
       _enforce_crawler_limits(WithLimits(crawlers[log_request.crawler_id], l))
  \/ _enforce_crawler_limits_delete
  \/ _enforce_crawler_limits_measure
  \/ \E q \in UserQuotas :
       _enforce_user_quota([id |-> KeyUser(log_request.api_key), log_quota_bytes |-> q])
  \/ _enforce_user_quota_delete
  \/ _enforce_user_quota_measure
  \/ create_log_return
  \/ \E size \in QuotaSizes :
       /\ Len(logs) < MaxLogRows /\ NextLogId <= MaxLogId
       /\ concurrent_create_log(1, 1, size)

SpecQuota == InitLog /\ [][NextQuota]_vars

\* ---------------------------------------------------- config assignments
\* str.strip() on the texts the model uses.
Strip(s) ==
  CASE s = " a " -> "a"
    [] s = " n2 " -> "n2"
    [] s = " " -> ""
    [] OTHER -> s

_normalize_config_format(value) == IF value = "yaml" THEN "yaml" ELSE "json"

\* Crawler groups and config templates are created by other pages; the model
\* has group 1 and template 1, both of account 1.
GroupsOf(user) == IF user = 1 THEN {1} ELSE {}
TemplatesOf(user) == IF user = 1 THEN {1} ELSE {}
TemplateContent == "t"
KeyLocalId(k) == 1

\* Crawler.local_id: max(local_id) + 1 within the account at creation.
LocalId(c) == Cardinality({i \in 1..c : crawlers[i].user_id = crawlers[c].user_id})

\* The (target_type, target_id) an assignment is stored with, or the error.
_resolve_assignment_target(current_user, target_type, target_id) ==
  IF target_type \notin {"crawler", "api_key", "group"} THEN [code |-> 400, id |-> NoId]
  ELSE IF target_type = "crawler"
  THEN LET found == {c \in 1..Len(crawlers) : /\ crawlers[c].user_id = current_user
                                               /\ (c = target_id \/ LocalId(c) = target_id)}
       IN  IF found = {} THEN [code |-> 404, id |-> NoId]
           ELSE [code |-> 200, id |-> CHOOSE c \in found : \A d \in found : c <= d]
  ELSE IF target_type = "api_key"
  THEN LET found == {k \in ApiKeys : /\ KeyUser(k) = current_user
                                     /\ (k = target_id \/ KeyLocalId(k) = target_id)}
       IN  IF found = {} THEN [code |-> 404, id |-> NoId]
           ELSE [code |-> 200, id |-> CHOOSE k \in found : \A d \in found : k <= d]
  ELSE IF target_id \in GroupsOf(current_user) THEN [code |-> 200, id |-> target_id]
       ELSE [code |-> 404, id |-> NoId]

other_than_assignments == <<clock, crawlers, heartbeats, runs, rules, alert_states, alert_events, commands, logs, log_request, api_keys, memory, requests, file_tokens, schema>>

AssignmentResponse(op, code, a) ==
  [op |-> op, code |-> code, assignment_id |-> IF code = 200 THEN a.id ELSE NoId,
   version |-> IF code = 200 THEN a.version ELSE NoNumber]

create_config_assignment(current_user, payload) ==
  LET name == Strip(payload.name)
      target == _resolve_assignment_target(current_user, payload.target_type, payload.target_id)
      existing == {i \in 1..Len(assignments) : /\ assignments[i].user_id = current_user
                                               /\ assignments[i].target_type = payload.target_type
                                               /\ assignments[i].target_id = target.id}
      has_template == payload.template_id # NoNumber
      content == Strip(IF payload.content # NoStatus THEN payload.content
                       ELSE IF has_template THEN TemplateContent ELSE "")
      code == IF name = "" THEN 400
              ELSE IF target.code # 200 THEN target.code
              ELSE IF existing # {} THEN 400
              ELSE IF has_template /\ payload.template_id \notin TemplatesOf(current_user) THEN 404
              ELSE IF content = "" THEN 400
              ELSE 200
      assignment == [id |-> Len(assignments) + 1, user_id |-> current_user, name |-> name,
                     description |-> payload.description,
                     target_type |-> payload.target_type, target_id |-> target.id,
                     format |-> _normalize_config_format(payload.format), content |-> content,
                     version |-> 1, is_active |-> payload.is_active,
                     template_id |-> IF has_template THEN payload.template_id ELSE NoId]
  IN  /\ UNCHANGED other_than_assignments
      /\ assignments' = IF code = 200 THEN Append(assignments, assignment) ELSE assignments
      /\ response' = AssignmentResponse("create_config_assignment", code, assignment)

\* `if cleaned != assignment.content: content = cleaned; version += 1`
SetContent_always_bumping(assignment, cleaned) ==
  [assignment EXCEPT !.content = cleaned, !.version = @ + 1]

SetContent(assignment, cleaned) ==
  IF cleaned # assignment.content
  THEN [assignment EXCEPT !.content = cleaned, !.version = @ + 1]
  ELSE assignment

update_config_assignment(current_user, assignment_id, payload) ==
  LET found == /\ assignment_id \in 1..Len(assignments)
               /\ assignments[assignment_id].user_id = current_user
      a0 == assignments[assignment_id]
      a1 == IF payload.name # NoStatus THEN [a0 EXCEPT !.name = Strip(payload.name)] ELSE a0
      a2 == IF payload.description # NoStatus
            THEN [a1 EXCEPT !.description = payload.description] ELSE a1
      a3 == IF payload.format # NoStatus
            THEN [a2 EXCEPT !.format = _normalize_config_format(payload.format)] ELSE a2
      a4 == IF payload.content # NoStatus THEN SetContent(a3, Strip(payload.content)) ELSE a3
      a5 == IF payload.template_id # NoNumber
            THEN [a4 EXCEPT !.template_id = IF payload.template_id # 0
                                            THEN payload.template_id ELSE NoId]
            ELSE a4
      a6 == IF payload.is_active # NoStatus
            THEN [a5 EXCEPT !.is_active = (payload.is_active = "true")] ELSE a5
      code == IF ~found THEN 404
              ELSE IF payload.name # NoStatus /\ Strip(payload.name) = "" THEN 400
              ELSE IF payload.content # NoStatus /\ Strip(payload.content) = "" THEN 400
              ELSE IF /\ payload.template_id \notin {NoNumber, 0}
                      /\ payload.template_id \notin TemplatesOf(current_user) THEN 404
              ELSE 200
  IN  /\ UNCHANGED other_than_assignments
      /\ assignments' = IF code = 200 THEN [assignments EXCEPT ![assignment_id] = a6]
                        ELSE assignments
      /\ response' = IF code = 200
                     THEN AssignmentResponse("update_config_assignment", 200, a6)
                     ELSE AssignmentResponse("update_config_assignment", code, <<>>)

Last(S) == CHOOSE i \in S : \A j \in S : j <= i

\* The active assignments of the account that target the crawler, its key or
\* its group, as {target_type: {target_id: assignment}}; the last row read
\* wins a bucket.
_build_assignment_map_with_inactive(user_id, crawler_ids, api_key_ids, group_ids) ==
  LET wanted(a) == \/ a.target_type = "crawler" /\ a.target_id \in crawler_ids
                   \/ a.target_type = "api_key" /\ a.target_id \in api_key_ids
                   \/ a.target_type = "group" /\ a.target_id \in group_ids
      rows == {i \in 1..Len(assignments) : /\ assignments[i].user_id = user_id
                                           /\ wanted(assignments[i])}
      bucket(type, ids) ==
        [t \in {assignments[i].target_id : i \in {j \in rows : assignments[j].target_type = type}} |->
           assignments[Last({i \in rows : /\ assignments[i].target_type = type
                                          /\ assignments[i].target_id = t})]]
  IN  [crawler |-> bucket("crawler", crawler_ids), api_key |-> bucket("api_key", api_key_ids),
       group |-> bucket("group", group_ids)]

_build_assignment_map(user_id, crawler_ids, api_key_ids, group_ids) ==
  LET wanted(a) == \/ a.target_type = "crawler" /\ a.target_id \in crawler_ids
                   \/ a.target_type = "api_key" /\ a.target_id \in api_key_ids
                   \/ a.target_type = "group" /\ a.target_id \in group_ids
      rows == {i \in 1..Len(assignments) : /\ assignments[i].user_id = user_id
                                           /\ assignments[i].is_active
                                           /\ wanted(assignments[i])}
      bucket(type, ids) ==
        [t \in {assignments[i].target_id : i \in {j \in rows : assignments[j].target_type = type}} |->
           assignments[Last({i \in rows : /\ assignments[i].target_type = type
                                          /\ assignments[i].target_id = t})]]
  IN  [crawler |-> bucket("crawler", crawler_ids), api_key |-> bucket("api_key", api_key_ids),
       group |-> bucket("group", group_ids)]

NoAssignment == [id |-> NoId]

_resolve_assignment_from_map(map, crawler) ==
  IF crawler.id \in DOMAIN map.crawler THEN map.crawler[crawler.id]
  ELSE IF crawler.api_key_id # NoId /\ crawler.api_key_id \in DOMAIN map.api_key
  THEN map.api_key[crawler.api_key_id]
  ELSE IF crawler.group_id # NoId /\ crawler.group_id \in DOMAIN map.group
  THEN map.group[crawler.group_id]
  ELSE NoAssignment

_get_effective_assignment(user_id, crawler) ==
  _resolve_assignment_from_map(
    _build_assignment_map(user_id, {crawler.id},
                          IF crawler.api_key_id # NoId THEN {crawler.api_key_id} ELSE {},
                          IF crawler.group_id # NoId THEN {crawler.group_id} ELSE {}),
    crawler)

NoConfig(cid) ==
  [op |-> "fetch_crawler_config", code |-> 200, crawler_id |-> cid, has_config |-> FALSE,
   assignment_id |-> NoId, version |-> NoNumber, content |-> NoStatus]

fetch_crawler_config(k, cid) ==
  /\ UNCHANGED other_than_assignments
  /\ UNCHANGED assignments
  /\ IF OwnedCrawler(k, cid) = NoId
     THEN response' = [op |-> "fetch_crawler_config", code |-> 404, crawler_id |-> NoId,
                       has_config |-> FALSE, assignment_id |-> NoId, version |-> NoNumber,
                       content |-> NoStatus]
     ELSE LET assignment == _get_effective_assignment(KeyUser(k), crawlers[cid])
          IN  IF assignment = NoAssignment \/ ~assignment.is_active
              THEN response' = NoConfig(cid)
              ELSE response' = [op |-> "fetch_crawler_config", code |-> 200, crawler_id |-> cid,
                                has_config |-> TRUE, assignment_id |-> assignment.id,
                                version |-> assignment.version, content |-> assignment.content]

\* ---- config resolution (SpecConfig): one crawler, with or without a bound
\* key and a group, and at most one assignment per target
RegisteredCrawler(k, g) ==
  [id |-> 1, user_id |-> 1, api_key_id |-> k, group_id |-> g, status |-> "offline",
   status_changed_at |-> 0, last_heartbeat |-> NoTime, heartbeat_payload |-> MissingValue]

InitConfig ==
  /\ clock = 0
  /\ \E k \in {NoId, 1}, g \in {NoId, 1} : crawlers = <<RegisteredCrawler(k, g)>>
  /\ heartbeats = <<>> /\ runs = <<>> /\ rules = <<>>
  /\ alert_states = <<>> /\ alert_events = <<>> /\ commands = <<>>
  /\ response = [op |-> "none", code |-> 0, crawler_id |-> NoId]
  /\ logs = <<>> /\ log_request = IdleRequest
  /\ assignments = <<>> /\ api_keys = <<>>
  /\ NoProcessState

CreatePayload(name, target_type, target_id, content, template_id, is_active) ==
  [name |-> name, description |-> NoStatus, target_type |-> target_type, target_id |-> target_id,
   format |-> "json", content |-> content, template_id |-> template_id, is_active |-> is_active]

UpdatePayload(name, description, format, content, template_id, is_active) ==
  [name |-> name, description |-> description, format |-> format, content |-> content,
   template_id |-> template_id, is_active |-> is_active]

NextConfig ==
  \/ \E type \in {"crawler", "api_key", "group"}, active \in BOOLEAN :
       /\ Len(assignments) < MaxAssignments
       /\ create_config_assignment(1, CreatePayload("n1", type, 1, "a", NoNumber, active))
  \/ \E id \in 1..Len(assignments), active \in {"true", "false"} :
       update_config_assignment(1, id,
         UpdatePayload(NoStatus, NoStatus, NoStatus, NoStatus, NoNumber, active))
  \/ \E c \in {<<1, 1>>, <<2, 1>>} : fetch_crawler_config(c[1], c[2])

SpecConfig == InitConfig /\ [][NextConfig]_vars

\* ---- assignment versions (SpecVersion): one assignment, every kind of edit
VersionCreates ==
  {CreatePayload(n, "crawler", 1, c, t, TRUE) :
     n \in {"n1", " "}, c \in {"a", " a ", NoStatus}, t \in {NoNumber, 1, 9}}

VersionUpdates ==
  {UpdatePayload(n, d, f, c, t, a) :
     n \in {NoStatus, " n2 ", " "}, d \in {NoStatus, "d2"}, f \in {NoStatus, "yaml"},
     c \in {NoStatus, " a ", "b", " "}, t \in {NoNumber, 0, 1, 9}, a \in {NoStatus, "false"}}

NextVersion ==
  \/ \E p \in VersionCreates :
       /\ Len(assignments) < 1
       /\ create_config_assignment(1, p)
  \/ \E p \in VersionUpdates :
       /\ Len(assignments) = 1
       /\ assignments[1].version < MaxVersion
       /\ update_config_assignment(1, 1, p)
  \/ \E c \in {<<2, 1>>, <<1, 2>>} :
       /\ Len(assignments) = 1
       /\ update_config_assignment(c[1], c[2],
            UpdatePayload(NoStatus, NoStatus, NoStatus, "b", NoNumber, NoStatus))

SpecVersion == InitConfig /\ [][NextVersion]_vars

\* ---- the status deriver on its own (SpecDerive): times in seconds around
\* the two windows
DeriveNows == {1000, 1001, 2000, 86400}
Elapsed ==
  UNION {(c - DeriveMargin)..(c + DeriveMargin) : c \in {0, HEARTBEAT_ONLINE_SECONDS, HEARTBEAT_WARN_SECONDS}}
    \cup {600, 1800}

\* One evaluation of _compute_status(last_heartbeat) at the time t.
compute_status(last_heartbeat, t) ==
  /\ UNCHANGED <<clock, crawlers, heartbeats, runs, rules, alert_states, alert_events, commands>>
  /\ UNCHANGED other_tables
  /\ response' = [op |-> "_compute_status", code |-> 200, crawler_id |-> NoId,
                  now |-> t, last_heartbeat |-> last_heartbeat,
                  status |-> _compute_status_in(1, last_heartbeat, t)]

NextDerive ==
  \E t \in DeriveNows :
    \E last_heartbeat \in {NoTime} \cup {t - e : e \in Elapsed} :
      compute_status(last_heartbeat, t)

SpecDerive == InitLog /\ [][NextDerive]_vars

\* ---- stored status (SpecStatus): one crawler, heartbeats with and without
\* a status in the body
BodyStatuses == {NoStatus, "", "warning", "busy"}
StatusGaps == {0, 1}

NextStatus ==
  \/ \E gap \in StatusGaps :
       /\ clock + gap <= MaxClock
       /\ register_crawler(1, gap)
  \/ \E c \in {<<1, 1>>, <<2, 1>>}, gap \in StatusGaps, hint \in BodyStatuses :
       /\ clock + gap <= MaxClock /\ Len(heartbeats) < MaxStatusBeats
       /\ heartbeat(c[1], c[2], gap, hint, MissingValue, TRUE, NetOk)

SpecStatus == InitLog /\ [][NextStatus]_vars

\* ---------------------------------------------------- worker authentication
\* The api_keys rows as _require_api_key sees them: the secret, the active
\* flag, the allow-list text and the usage bookkeeping.  (The other handlers
\* of the model start after this dependency has returned a key, which they
\* receive as k.)
ApiKeyRow(id, key, active, allowed_ips) ==
  [id |-> id, key |-> key, active |-> active, allowed_ips |-> allowed_ips,
   last_used_at |-> NoTime, last_used_ip |-> NoStatus]

\* {ip.strip() for ip in allowed_ips.split(",") if ip.strip()} on the
\* allow-list texts the model uses.
SplitAllowedIps(allowed_ips) ==
  CASE allowed_ips = "ip1" -> {"ip1"}
    [] allowed_ips = "ip1, ip2" -> {"ip1", "ip2"}
    [] allowed_ips = " , " -> {}
    [] OTHER -> {}

_get_client_ip(has_client, x_real_ip) == IF has_client THEN x_real_ip ELSE NoStatus

\* The allow-list test: passes when no list is stored, when the stored text
\* holds no address, or when the caller's address is one of the list.
PassesAllowList_unchecked(allowed_ips, client_ip) == TRUE

PassesAllowList(allowed_ips, client_ip) ==
  IF allowed_ips \in {NoStatus, ""} THEN TRUE
  ELSE LET allowed == SplitAllowedIps(allowed_ips)
       IN  ~(allowed # {} /\ client_ip \notin allowed)

_require_api_key(x_api_key, has_client, x_real_ip, gap) ==
  LET t == clock + gap
      found == {i \in 1..Len(api_keys) : api_keys[i].key = x_api_key /\ api_keys[i].active}
      key == CHOOSE i \in found : \A j \in found : i <= j
      client_ip == _get_client_ip(has_client, x_real_ip)
      code == IF x_api_key \in {NoStatus, ""} THEN 401
              ELSE IF found = {} THEN 401
              ELSE IF ~PassesAllowList(api_keys[key].allowed_ips, client_ip) THEN 403
              ELSE 200
  IN  /\ clock' = t
      /\ UNCHANGED <<crawlers, heartbeats, runs, rules, alert_states, alert_events, commands>>
      /\ UNCHANGED <<logs, log_request, assignments>>
      /\ UNCHANGED process_state
      /\ api_keys' = IF code = 200
                     THEN [api_keys EXCEPT ![key].last_used_at = t, ![key].last_used_ip = client_ip]
                     ELSE api_keys
      /\ response' = [op |-> "_require_api_key", code |-> code, crawler_id |-> NoId,
                      api_key_id |-> IF code = 200 THEN key ELSE NoId]

\* ---- authentication (SpecAuth): two credentials, one of them with every
\* kind of allow-list, the other active or not
AllowLists == {NoStatus, "", "ip1", "ip1, ip2", " , "}
Secrets == {NoStatus, "", "k1", "k2", "zz"}
RealIps == {NoStatus, "ip1", "ip9"}
AuthGaps == {0, 1}

InitAuth ==
  /\ clock = 0
  /\ crawlers = <<>> /\ heartbeats = <<>> /\ runs = <<>> /\ rules = <<>>
  /\ alert_states = <<>> /\ alert_events = <<>> /\ commands = <<>>
  /\ response = [op |-> "none", code |-> 0, crawler_id |-> NoId]
  /\ logs = <<>> /\ log_request = IdleRequest /\ assignments = <<>>
  /\ NoProcessState
  /\ \E allowed_ips \in AllowLists, active \in BOOLEAN :
       api_keys = <<ApiKeyRow(1, "k1", TRUE, allowed_ips), ApiKeyRow(2, "k2", active, NoStatus)>>

NextAuth ==
  \E x_api_key \in Secrets, has_client \in BOOLEAN, x_real_ip \in RealIps, gap \in AuthGaps :
    /\ clock + gap <= MaxClock
    /\ _require_api_key(x_api_key, has_client, x_real_ip, gap)

SpecAuth == InitAuth /\ [][NextAuth]_vars

\* ---- the bookkeeping commit of _require_api_key may fail (SpecAuthWrite).
\* The function holds no try/except around db.commit(): an exception raised
\* by the commit (a locked or unreachable database) leaves the dependency
\* through FastAPI as a 500, the handler is never called and the session is
\* closed with the pending write dropped.
_require_api_key_commit(x_api_key, has_client, x_real_ip, gap, commit_ok) ==
  LET found == {i \in 1..Len(api_keys) : api_keys[i].key = x_api_key /\ api_keys[i].active}
      key == CHOOSE i \in found : \A j \in found : i <= j
      client_ip == _get_client_ip(has_client, x_real_ip)
      reaches_commit == /\ x_api_key \notin {NoStatus, ""}
                        /\ found # {}
                        /\ PassesAllowList(api_keys[key].allowed_ips, client_ip)
  IN  IF commit_ok \/ ~reaches_commit
      THEN _require_api_key(x_api_key, has_client, x_real_ip, gap)
      ELSE /\ clock' = clock + gap
           /\ UNCHANGED <<crawlers, heartbeats, runs, rules, alert_states, alert_events, commands>>
           /\ UNCHANGED <<logs, log_request, assignments, api_keys>>
           /\ UNCHANGED process_state
           /\ response' = [op |-> "_require_api_key", code |-> 500, crawler_id |-> NoId,
                           api_key_id |-> NoId, raised |-> "commit", credential |-> key]

NextAuthWrite ==
  \E x_api_key \in Secrets, has_client \in BOOLEAN, x_real_ip \in RealIps, gap \in AuthGaps :
    \E commit_ok \in BOOLEAN :
      /\ clock + gap <= MaxClock
      /\ _require_api_key_commit(x_api_key, has_client, x_real_ip, gap, commit_ok)

SpecAuthWrite == InitAuth /\ [][NextAuthWrite]_vars

\* ------------------------------------------------------ log-query rate limit
\* time.time() is counted in ticks of 1/RateTicksPerSecond second in this
\* part.  memory._LOG_RATE_BUCKETS maps each account to its list of time
\* stamps (a missing key reads as the empty list: `.get(user_id) or []`).
\* requests.in_flight holds the calls that have read the time and wait for
\* _LOG_RATE_LOCK; requests.let_through records, per account, the calls that
\* returned without raising: the time each one read and the time it returned.
RateUsers == {1, 2}

RateWindow == RateTicksPerSecond

rate_limit == Max(1, IF LOG_QUERY_RATE_PER_SECOND = 0 THEN 5 ELSE LOG_QUERY_RATE_PER_SECOND)

Without(seq, i) == SubSeq(seq, 1, i - 1) \o SubSeq(seq, i + 1, Len(seq))

\* arr = [ts for ts in arr if ts >= window_begin]
StampsSince(arr, window_begin) == SelectSeq(arr, LAMBDA ts : ts >= window_begin)

rate_tables == <<crawlers, heartbeats, runs, rules, alert_states, alert_events, commands, logs, log_request, assignments, api_keys, file_tokens, schema>>

\* lines 127-129: the limit and the time are read before the lock is taken
_enforce_log_rate_limit_begin(user_id, gap) ==
  /\ clock' = clock + gap
  /\ requests' = [requests EXCEPT !.in_flight = Append(@, [user_id |-> user_id, now |-> clock + gap])]
  /\ UNCHANGED <<memory, response>>
  /\ UNCHANGED rate_tables

\* lines 130-137: the block under _LOG_RATE_LOCK, for the i-th waiting call
_enforce_log_rate_limit_locked(i) ==
  LET call == requests.in_flight[i]
      window_begin == call.now - RateWindow
      arr == StampsSince(memory._LOG_RATE_BUCKETS[call.user_id], window_begin)
      raised == Len(arr) >= rate_limit
  IN  /\ memory' = IF raised THEN memory
                   ELSE [memory EXCEPT !._LOG_RATE_BUCKETS[call.user_id] = Append(arr, call.now)]
      /\ requests' = [in_flight |-> Without(requests.in_flight, i),
                      let_through |-> IF raised THEN requests.let_through
                                      ELSE [requests.let_through EXCEPT ![call.user_id] =
                                              Append(@, [now |-> call.now, at |-> clock])]]
      /\ response' = [op |-> "_enforce_log_rate_limit", code |-> IF raised THEN 429 ELSE 200,
                      crawler_id |-> NoId, user_id |-> call.user_id, now |-> call.now]
      /\ UNCHANGED clock
      /\ UNCHANGED rate_tables

InitRate ==
  /\ EmptyTables /\ rules = <<>> /\ file_tokens = {} /\ schema = DeclaredSchema
  /\ memory = [_LOG_RATE_BUCKETS |-> [u \in RateUsers |-> <<>>]]
  /\ requests = [in_flight |-> <<>>, let_through |-> [u \in RateUsers |-> <<>>]]

RateGaps == {0, 1, RateWindow + 1}

Served == Len(requests.in_flight) + Len(requests.let_through[1]) + Len(requests.let_through[2])

NextRate ==
  \/ \E user_id \in RateUsers, gap \in RateGaps :
       /\ clock + gap <= MaxRateClock
       /\ Served < MaxRateCalls
       /\ Len(requests.in_flight) < MaxInFlight
       /\ _enforce_log_rate_limit_begin(user_id, gap)
  \/ \E i \in 1..Len(requests.in_flight) : _enforce_log_rate_limit_locked(i)

SpecRate == InitRate /\ [][NextRate]_vars

\* ------------------------------------- two accounts side by side (SpecTenant)
\* Account 1 (key 1) owns crawler 1, account 2 (key 2) owns crawler 2; each
\* account has one alert rule on all its crawlers, one pending command, one
\* stored log line and one active configuration.  The workers of both
\* accounts send every worker request to both crawlers, one request at a
\* time and all within one minute.  The quota functions are run on objects that carry limits, so that
\* they delete.
TenantCrawler(k) ==
  [id |-> k, user_id |-> KeyUser(k), api_key_id |-> k, group_id |-> NoId, status |-> "online",
   status_changed_at |-> 0, last_heartbeat |-> NoTime, heartbeat_payload |-> MissingValue]

TenantCommand(id, cid) ==
  [id |-> id, crawler_id |-> cid, status |-> "pending", result |-> NoResult, created_at |-> 0,
   processed_at |-> NoTime, expires_at |-> NoTime]

TenantAssignment(id, user) ==
  [id |-> id, user_id |-> user, name |-> "n1", description |-> NoStatus, target_type |-> "crawler",
   target_id |-> user, format |-> "json", content |-> "a", version |-> 1, is_active |-> TRUE,
   template_id |-> NoId]

InitTenant ==
  /\ clock = 0
  /\ crawlers = <<TenantCrawler(1), TenantCrawler(2)>>
  /\ heartbeats = <<>> /\ runs = <<>>
  /\ rules = << Rule(1, 2, "status_offline", "all", {}, NoStatus, NoNumber, 1, 0, <<>>),
                Rule(2, 1, "status_offline", "all", {}, NoStatus, NoNumber, 1, 0, <<>>) >>
  /\ alert_states = <<>> /\ alert_events = <<>>
  /\ commands = <<TenantCommand(1, 2), TenantCommand(2, 1)>>
  /\ response = [op |-> "none", code |-> 0, crawler_id |-> NoId]
  /\ logs = <<[id |-> 1, crawler_id |-> 2, size |-> 2], [id |-> 2, crawler_id |-> 1, size |-> 2]>>
  /\ log_request = IdleRequest
  /\ assignments = <<TenantAssignment(1, 2), TenantAssignment(2, 1)>>
  /\ api_keys = <<>>
  /\ NoProcessState

TenantGaps == {0}
TenantHints == {NoStatus, "offline"}
TenantSizes == {2}
TenantLimits == <<1, 0>>
\* Account 1 has a quota of one byte, account 2 has none.
TenantQuota(user_id) == IF user_id = 1 THEN 1 ELSE NoNumber

\* Heartbeat rows stored plus log ids handed out since the start.
TenantWrites == Len(heartbeats) + (NextLogId - 3)

NextTenant ==
  \/ \E k \in ApiKeys, cid \in CrawlerIds, gap \in TenantGaps, hint \in TenantHints :
       /\ TenantWrites < MaxTenantWrites
       /\ log_request.pc = "idle"
       /\ heartbeat(k, cid, gap, hint, MissingValue, TRUE, NetOk)
  \/ \E k \in ApiKeys, cid \in CrawlerIds, size \in TenantSizes :
       /\ TenantWrites < MaxTenantWrites
       /\ create_log(k, cid, size)
  \/ _enforce_crawler_limits(WithLimits(crawlers[log_request.crawler_id], TenantLimits))
  \/ _enforce_crawler_limits_delete
  \/ _enforce_crawler_limits_measure
  \/ _enforce_user_quota([id |-> KeyUser(log_request.api_key), log_quota_bytes |-> TenantQuota(KeyUser(log_request.api_key))])
  \/ _enforce_user_quota_delete
  \/ _enforce_user_quota_measure
  \/ create_log_return
  \/ \E k \in ApiKeys, cid \in CrawlerIds :
       log_request.pc = "idle" /\ fetch_crawler_config(k, cid)
  \/ \E k \in ApiKeys, cid \in CrawlerIds :
       log_request.pc = "idle" /\ fetch_commands(k, cid, 0)
  \/ \E k \in ApiKeys, cid \in CrawlerIds, command_id \in 1..Len(commands) :
       /\ log_request.pc = "idle"
       /\ acknowledge_command(k, cid, command_id, 0, NoStatus, NoResult)

SpecTenant == InitTenant /\ [][NextTenant]_vars

\* ------------------------------------------------ alert rule targets
\* _validate_alert_targets: the ids a rule is stored with, or 400.
_validate_alert_targets(current_user, target_type, target_ids) ==
  LET owned == CASE target_type = "crawler" ->
                      {i \in 1..Len(crawlers) : crawlers[i].user_id = current_user}
                 [] target_type = "api_key" -> {k \in ApiKeys : KeyUser(k) = current_user}
                 [] target_type = "group" -> GroupsOf(current_user)
                 [] OTHER -> {}
  IN  IF target_type = "all" \/ target_ids = {} THEN [code |-> 200, ids |-> {}]
      ELSE IF target_type \notin {"crawler", "api_key", "group"} THEN [code |-> 400, ids |-> {}]
      ELSE IF target_ids \cap owned # target_ids THEN [code |-> 400, ids |-> {}]
      ELSE [code |-> 200, ids |-> target_ids]

\* POST /alerts/rules by the operator of account current_user.  The rules of
\* this part carry their name; they watch for offline crawlers, fire at the
\* first offline heartbeat and have no channel.
create_alert_rule(current_user, name, target_type, target_ids) ==
  LET cleaned == Strip(name)
      exists == \E i \in 1..Len(rules) : rules[i].user_id = current_user /\ rules[i].name = cleaned
      targets == _validate_alert_targets(current_user, target_type, target_ids)
      code == IF cleaned = "" THEN 400
              ELSE IF exists THEN 400
              ELSE targets.code
      rule == Rule(Len(rules) + 1, current_user, "status_offline", target_type, targets.ids,
                   NoStatus, NoNumber, 1, 0, <<>>) @@ [name |-> cleaned]
  IN  /\ UNCHANGED <<clock, crawlers, heartbeats, runs, alert_states, alert_events, commands>>
      /\ UNCHANGED other_tables
      /\ rules' = IF code = 200 THEN Append(rules, rule) ELSE rules
      /\ response' = [op |-> "create_alert_rule", code |-> code, crawler_id |-> NoId,
                      rule_id |-> IF code = 200 THEN rule.id ELSE NoId]

\* ---- SpecTarget: account 1 owns crawler 1 (bound to key 1, in group 1) and
\* crawler 2 (no key, no group); its operator creates rules of every target
\* kind and the crawlers report offline.
TargetCrawler(id, k, g) ==
  [id |-> id, user_id |-> 1, api_key_id |-> k, group_id |-> g, status |-> "online",
   status_changed_at |-> 0, last_heartbeat |-> NoTime, heartbeat_payload |-> MissingValue]

InitTarget ==
  /\ clock = 0
  /\ crawlers = <<TargetCrawler(1, 1, 1), TargetCrawler(2, NoId, NoId)>>
  /\ heartbeats = <<>> /\ runs = <<>> /\ rules = <<>>
  /\ alert_states = <<>> /\ alert_events = <<>> /\ commands = <<>>
  /\ response = [op |-> "none", code |-> 0, crawler_id |-> NoId]
  /\ logs = <<>> /\ log_request = IdleRequest
  /\ assignments = <<>> /\ api_keys = <<>>
  /\ NoProcessState

TargetKinds == {"all", "crawler", "api_key", "group"}
TargetIdSets == {{}, {1}, {2}, {1, 2}}
RuleNames == {" ", "r1", "r2"}

NextTarget ==
  \/ \E name \in RuleNames, target_type \in TargetKinds, target_ids \in TargetIdSets :
       /\ Len(rules) < MaxTargetRules
       /\ create_alert_rule(1, name, target_type, target_ids)
  \/ \E cid \in {1, 2}, hint \in {NoStatus, "offline"} :
       /\ Len(heartbeats) < MaxTargetBeats
       /\ heartbeat(1, cid, 0, hint, MissingValue, TRUE, NetOk)

SpecTarget == InitTarget /\ [][NextTarget]_vars

\* ------------------------------------------- registration, statement by statement
\* Crawler rows of this part carry name and local_id; the api_keys rows carry
\* their owner.  requests is the list of register requests in progress: what
\* each has read so far.  schema.uq_crawlers_api_key_id tells whether the
\* database still enforces UNIQUE(api_key_id) on crawlers: models.py declares
\* it, the migration f7d2a1c3d4e5 drops it (PostgreSQL, MySQL).  The UNIQUE
\* (user_id, local_id) index is always there.
RegisterKey(id, user_id, local_id) ==
  [id |-> id, user_id |-> user_id, local_id |-> local_id, group_id |-> NoId, key |-> NoStatus,
   active |-> TRUE, allowed_ips |-> NoStatus, last_used_at |-> NoTime, last_used_ip |-> NoStatus]

BoundCrawlers(k) == {i \in 1..Len(crawlers) : crawlers[i].api_key_id = k}

\* api_key.crawler (uselist=False): the first bound row, NoId when none.
CrawlerOf(k) == IF BoundCrawlers(k) = {} THEN NoId ELSE CHOOSE i \in BoundCrawlers(k) : \A j \in BoundCrawlers(k) : i <= j

DefaultName(k) == IF api_keys[k].local_id = 1 THEN "crawler-1" ELSE "crawler-2"

register_tables == <<clock, heartbeats, runs, rules, alert_states, alert_events, commands, logs, log_request, assignments, api_keys, memory, file_tokens, schema>>

\* crawler.name = name; crawler.group_id = api_key.group_id; db.commit()
Renamed(rows, cid, k, name) == [rows EXCEPT ![cid].name = name, ![cid].group_id = api_keys[k].group_id]

RegisterResponse(code, cid, k, name) ==
  [op |-> "register_crawler", code |-> code, crawler_id |-> cid, api_key_id |-> k, name |-> name]

\* register_crawler up to `if api_key.crawler:` of _get_or_bind_crawler.  A
\* credential that has its crawler finishes here: rename, commit, response.
register_crawler_begin(k, payload_name) ==
  LET name == IF payload_name \in {NoStatus, ""} THEN DefaultName(k) ELSE Strip(payload_name)
      found == CrawlerOf(k)
  IN  /\ UNCHANGED register_tables
      /\ IF found # NoId
         THEN /\ crawlers' = Renamed(crawlers, found, k, name)
              /\ response' = RegisterResponse(200, found, k, name)
              /\ UNCHANGED requests
         ELSE /\ requests' = Append(requests, [pc |-> "max_local", api_key |-> k, name |-> name,
                                               max_local |-> 0])
              /\ UNCHANGED <<crawlers, response>>

\* max_local = SELECT max(local_id) WHERE user_id = api_key.user_id, or 0
MaxLocal(user_id) ==
  LET mine == {crawlers[i].local_id : i \in {j \in 1..Len(crawlers) : crawlers[j].user_id = user_id}}
  IN  IF mine = {} THEN 0 ELSE CHOOSE m \in mine : \A n \in mine : n <= m

_get_or_bind_crawler_max_local(i) ==
  /\ requests[i].pc = "max_local"
  /\ requests' = [requests EXCEPT ![i].pc = "insert",
                                  ![i].max_local = MaxLocal(api_keys[requests[i].api_key].user_id)]
  /\ UNCHANGED <<crawlers, response>>
  /\ UNCHANGED register_tables

\* The INSERT is refused (IntegrityError, answered 500) when it repeats a
\* (user_id, local_id) pair or, where the constraint is in force, an
\* api_key_id.
InsertRefused(row) ==
  \/ \E i \in 1..Len(crawlers) : crawlers[i].user_id = row.user_id /\ crawlers[i].local_id = row.local_id
  \/ schema.uq_crawlers_api_key_id /\ BoundCrawlers(row.api_key_id) # {}

\* db.add(crawler); db.commit(); then the rest of register_crawler.
_get_or_bind_crawler_insert(i) ==
  LET req == requests[i]
      k == req.api_key
      row == [id |-> Len(crawlers) + 1, name |-> req.name, user_id |-> api_keys[k].user_id,
              local_id |-> req.max_local + 1, api_key_id |-> k, group_id |-> api_keys[k].group_id,
              status |-> "offline", status_changed_at |-> clock, last_heartbeat |-> NoTime,
              heartbeat_payload |-> MissingValue]
  IN  /\ req.pc = "insert"
      /\ requests' = Without(requests, i)
      /\ UNCHANGED register_tables
      /\ IF InsertRefused(row)
         THEN /\ response' = RegisterResponse(500, NoId, k, req.name)
              /\ UNCHANGED crawlers
         ELSE /\ crawlers' = Append(crawlers, row)
              /\ response' = RegisterResponse(200, row.id, k, req.name)

RegisterNames == {NoStatus, "w", "v"}

\* Account 1 holds credentials 1 and 2, account 2 holds credential 3.
RegisterInit(declared) ==
  /\ clock = 0
  /\ crawlers = <<>> /\ heartbeats = <<>> /\ runs = <<>> /\ rules = <<>>
  /\ alert_states = <<>> /\ alert_events = <<>> /\ commands = <<>>
  /\ response = [op |-> "none", code |-> 0, crawler_id |-> NoId]
  /\ logs = <<>> /\ log_request = IdleRequest /\ assignments = <<>>
  /\ api_keys = <<RegisterKey(1, 1, 1), RegisterKey(2, 1, 2), RegisterKey(3, 2, 1)>>
  /\ memory = <<>> /\ requests = <<>> /\ file_tokens = {}
  /\ schema \in {[uq_crawlers_api_key_id |-> b] : b \in declared}

\* ---- SpecRegisterByName: the schema as declared, one register request at
\* a time
InitRegisterByName == RegisterInit({TRUE})

NextRegisterByName ==
  \/ \E k \in 1..Len(api_keys), name \in RegisterNames :
       requests = <<>> /\ register_crawler_begin(k, name)
  \/ \E i \in 1..Len(requests) : _get_or_bind_crawler_max_local(i)
  \/ \E i \in 1..Len(requests) : _get_or_bind_crawler_insert(i)

SpecRegisterByName == InitRegisterByName /\ [][NextRegisterByName]_vars

\* ---- SpecRegister: register requests of the same and of different
\* credentials interleave; the database enforces UNIQUE(api_key_id) or, after
\* the migration that drops it, does not
InitRegister == RegisterInit(BOOLEAN)

NextRegister ==
  \/ \E k \in 1..Len(api_keys), name \in {NoStatus, "w"} :
       Len(requests) < MaxRegistering /\ register_crawler_begin(k, name)
  \/ \E i \in 1..Len(requests) : _get_or_bind_crawler_max_local(i)
  \/ \E i \in 1..Len(requests) : _get_or_bind_crawler_insert(i)

SpecRegister == InitRegister /\ [][NextRegister]_vars

\* ---- the effective limits of a crawler object for every stored pair of
\* limits (SpecLimits)
LimitValues == {NoNumber} \cup (-MaxLimit..MaxLimit)

effective_crawler_limits(log_max_lines, log_max_bytes) ==
  LET crawler == [id |-> 1, log_max_lines |-> log_max_lines, log_max_bytes |-> log_max_bytes]
      limits == _effective_crawler_limits(crawler)
  IN  /\ response' = [op |-> "_effective_crawler_limits", code |-> 200, crawler_id |-> NoId,
                      log_max_lines |-> log_max_lines, log_max_bytes |-> log_max_bytes,
                      max_lines |-> limits.max_lines, max_bytes |-> limits.max_bytes]
      /\ UNCHANGED <<clock, crawlers, heartbeats, runs, rules, alert_states, alert_events, commands>>
      /\ UNCHANGED other_tables

NextLimits ==
  \E log_max_lines \in LimitValues, log_max_bytes \in LimitValues :
    effective_crawler_limits(log_max_lines, log_max_bytes)

SpecLimits == InitLog /\ [][NextLimits]_vars

\* ---- dispatch over every short channel list (SpecDispatch): one crawler,
\* a rule with the channel list under test and a rule without channels; both
\* fire at every offline heartbeat.
DispatchChannels ==
  {Channel(type, has_target, enabled) :
     type \in {"email", "webhook", "sms"}, has_target \in BOOLEAN, enabled \in BOOLEAN}

ChannelLists ==
  {<<>>} \cup {<<c>> : c \in DispatchChannels}
         \cup {<<c, d>> : c \in {Channel("email", TRUE, FALSE), Channel("webhook", TRUE, TRUE)},
                          d \in DispatchChannels}

DispatchNets ==
  {NetOk,
   [webhook |-> "http_error", email |-> "ok", dispatch |-> "ok"],
   [webhook |-> "ok", email |-> "exception", dispatch |-> "ok"],
   [webhook |-> "ok", email |-> "ok", dispatch |-> "raise"]}

InitDispatch ==
  /\ clock = 0
  /\ crawlers = <<TenantCrawler(1)>>
  /\ heartbeats = <<>> /\ runs = <<>>
  /\ \E channels \in ChannelLists :
       rules = << Rule(1, 1, "status_offline", "all", {}, NoStatus, NoNumber, 1, 0, channels),
                  Rule(2, 1, "status_offline", "all", {}, NoStatus, NoNumber, 1, 0, <<>>) >>
  /\ alert_states = <<>> /\ alert_events = <<>> /\ commands = <<>>
  /\ response = [op |-> "none", code |-> 0, crawler_id |-> NoId]
  /\ logs = <<>> /\ log_request = IdleRequest /\ assignments = <<>> /\ api_keys = <<>>
  /\ NoProcessState

NextDispatch ==
  \E hint \in {NoStatus, "offline"}, net \in DispatchNets :
    /\ Len(heartbeats) < MaxDispatchBeats
    /\ heartbeat(1, 1, 0, hint, MissingValue, TRUE, net)

SpecDispatch == InitDispatch /\ [][NextDispatch]_vars

\* ------------------------------------------------ log statistics cache
\* time.time() is counted in seconds in this part.  memory._PRIVATE_STATS_CACHE
\* is the dict of that name: a function from the keys stored so far to
\* (ts, data).  Every log row of the part is written during the run, which
\* lasts a few minutes, so every row lies inside the lookback window (at
\* least one hour) and the level and text filters are left at their defaults:
\* `rows` is the crawler's rows.  A result is its total and scanned counts and
\* its first and last row (for their timestamps).
STATS_CACHE_TTL == Max(0, IF STATS_CACHE_TTL_SECONDS = 0 THEN 60 ELSE STATS_CACHE_TTL_SECONDS)

StatsHours == {1, 24}

CrawlerRows(crawler_id) == SelectSeq(logs, LAMBDA r : r.crawler_id = crawler_id)

StatsResult(rows) ==
  [first |-> rows[1].id, last |-> rows[Len(rows)].id, total |-> Len(rows), scanned |-> Len(rows)]

EmptyStatsResult == [first |-> NoId, last |-> NoId, total |-> 0, scanned |-> 0]

\* _stats_cache_get at time.time() = time; found = FALSE stands for None
_stats_cache_get(cache, key, time) ==
  IF STATS_CACHE_TTL <= 0 THEN [found |-> FALSE]
  ELSE IF key \notin DOMAIN cache THEN [found |-> FALSE]
  ELSE IF time - cache[key].ts > STATS_CACHE_TTL THEN [found |-> FALSE]
  ELSE [found |-> TRUE, data |-> cache[key].data]

_stats_cache_set(cache, key, data, time) ==
  IF STATS_CACHE_TTL <= 0 THEN cache
  ELSE [k \in DOMAIN cache \cup {key} |-> IF k = key THEN [ts |-> time, data |-> data] ELSE cache[k]]

stats_tables == <<crawlers, heartbeats, runs, rules, alert_states, alert_events, commands, assignments, api_keys, requests, file_tokens, schema>>

\* GET /me/{crawler_id}/logs/stats, gap seconds after the previous request
my_crawler_logs_stats(current_user, crawler_id, hours, gap) ==
  LET time == clock + gap
      rows == CrawlerRows(crawler_id)
      key == <<current_user, crawler_id, hours>>
      cached == _stats_cache_get(memory._PRIVATE_STATS_CACHE, key, time)
      answer(code, body) == [op |-> "my_crawler_logs_stats", code |-> code, crawler_id |-> crawler_id,
                             key |-> key, body |-> body]
  IN  /\ log_request.pc = "idle"
      /\ clock' = time
      /\ UNCHANGED <<logs, log_request>>
      /\ UNCHANGED stats_tables
      /\ IF ~(crawler_id \in 1..Len(crawlers) /\ crawlers[crawler_id].user_id = current_user)
         THEN response' = answer(404, EmptyStatsResult) /\ UNCHANGED memory
         ELSE IF Len(rows) = 0
         THEN response' = answer(200, EmptyStatsResult) /\ UNCHANGED memory
         ELSE IF cached.found
         THEN response' = answer(200, cached.data) /\ UNCHANGED memory
         ELSE /\ response' = answer(200, StatsResult(rows))
              /\ memory' = [memory EXCEPT !._PRIVATE_STATS_CACHE = _stats_cache_set(@, key, StatsResult(rows), time)]

\* DELETE /me/{crawler_id}/logs
clear_my_crawler_logs(current_user, crawler_id) ==
  /\ log_request.pc = "idle"
  /\ UNCHANGED <<clock, log_request, memory>>
  /\ UNCHANGED stats_tables
  /\ IF ~(crawler_id \in 1..Len(crawlers) /\ crawlers[crawler_id].user_id = current_user)
     THEN /\ response' = [op |-> "clear_my_crawler_logs", code |-> 404, crawler_id |-> NoId, deleted |-> 0]
          /\ UNCHANGED logs
     ELSE /\ response' = [op |-> "clear_my_crawler_logs", code |-> 200, crawler_id |-> crawler_id,
                          deleted |-> Len(CrawlerRows(crawler_id))]
          /\ logs' = SelectSeq(logs, LAMBDA r : r.crawler_id # crawler_id)

\* Account 1 with its crawler 1, account 2 with its crawler 2; nothing cached.
InitStats ==
  /\ clock = 0
  /\ crawlers = <<TenantCrawler(1), TenantCrawler(2)>>
  /\ heartbeats = <<>> /\ runs = <<>> /\ rules = <<>>
  /\ alert_states = <<>> /\ alert_events = <<>> /\ commands = <<>>
  /\ response = [op |-> "none", code |-> 0, crawler_id |-> NoId]
  /\ logs = <<>> /\ log_request = IdleRequest /\ assignments = <<>> /\ api_keys = <<>>
  /\ memory = [_PRIVATE_STATS_CACHE |-> <<>>]
  /\ requests = <<>> /\ file_tokens = {} /\ schema = DeclaredSchema

StatsGaps == {0, STATS_CACHE_TTL, STATS_CACHE_TTL + 1}

MaxStatsClock == 2 * STATS_CACHE_TTL + 2

NextStats ==
  \/ /\ Len(logs) < MaxStatsLogs
     /\ create_log(1, 1, 1)
  \/ _enforce_crawler_limits(crawlers[log_request.crawler_id])
  \/ _enforce_user_quota([id |-> KeyUser(log_request.api_key)])
  \/ create_log_return
  \/ \E crawler_id \in {1, 2} : clear_my_crawler_logs(1, crawler_id)
  \/ \E crawler_id \in {1, 2}, hours \in StatsHours, gap \in StatsGaps :
       /\ clock + gap <= MaxStatsClock
       /\ my_crawler_logs_stats(1, crawler_id, hours, gap)

SpecStats == InitStats /\ [][NextStats]_vars

\* ------------------------------------------------ file API tokens
\* A text is a sequence of one-character strings in this part, so that
\* strip(), startswith(), the prefixing, len() and the suffix pattern are
\* computed.  file_tokens is the table file_api_tokens (columns id, token,
\* user_id; token carries a unique index); requests holds the
\* create_file_token calls that have their token value and have not
\* committed yet.
TOKEN_PREFIX == <<"u", "p", "-">>

Whitespace == {" ", "\t", "\n"}

\* The characters of the model that match [A-Za-z0-9_-]
SuffixChars == {"a", "b", "d", "u", "p", "Z", "7", "_", "-"}

RECURSIVE lstrip(_)
lstrip(s) == IF s # <<>> /\ Head(s) \in Whitespace THEN lstrip(Tail(s)) ELSE s

RECURSIVE rstrip(_)
rstrip(s) == IF s # <<>> /\ s[Len(s)] \in Whitespace THEN rstrip(SubSeq(s, 1, Len(s) - 1)) ELSE s

strip(s) == rstrip(lstrip(s))

startswith(s, prefix) == Len(s) >= Len(prefix) /\ SubSeq(s, 1, Len(prefix)) = prefix

\* TOKEN_SUFFIX_PATTERN.fullmatch(suffix)
SuffixMatches(suffix) == Len(suffix) > 0 /\ \A i \in 1..Len(suffix) : suffix[i] \in SuffixChars

TokenValues(table) == {row.token : row \in table}

\* The first of the generated values that is not in the table, or <<>>.
RECURSIVE FirstUnused(_, _)
FirstUnused(tokens, generated) ==
  IF generated = <<>> THEN <<>>
  ELSE IF Head(generated) \notin tokens THEN Head(generated)
  ELSE FirstUnused(tokens, Tail(generated))

TokenAnswer(code, token) == [code |-> code, token |-> token]

\* A faulty variant: the table is searched for the candidate as typed.
_generate_token_value_by_candidate(tokens, requested, draws) ==
  LET candidate == strip(requested)
      normalized == IF startswith(candidate, TOKEN_PREFIX) THEN candidate ELSE TOKEN_PREFIX \o candidate
      suffix == SubSeq(normalized, Len(TOKEN_PREFIX) + 1, Len(normalized))
      generated == [i \in 1..TOKEN_GENERATION_ATTEMPTS |-> TOKEN_PREFIX \o draws[i]]
      unused == FirstUnused(tokens, generated)
  IN  IF candidate # <<>>
      THEN IF suffix = <<>> THEN TokenAnswer(400, <<>>)
           ELSE IF Len(normalized) > TOKEN_MAX_LENGTH THEN TokenAnswer(400, <<>>)
           ELSE IF ~SuffixMatches(suffix) THEN TokenAnswer(400, <<>>)
           ELSE IF candidate \in tokens THEN TokenAnswer(409, <<>>)
           ELSE TokenAnswer(200, normalized)
      ELSE IF unused # <<>> THEN TokenAnswer(200, unused)
      ELSE TokenAnswer(500, <<>>)

\* _generate_token_value(db, requested): tokens are the table's token values,
\* draws[i] is what secrets.token_urlsafe(18) returns in the i-th round of
\* the loop (None and '' are both the empty text: `requested or ''`).
_generate_token_value(tokens, requested, draws) ==
  LET candidate == strip(requested)
      normalized == IF startswith(candidate, TOKEN_PREFIX) THEN candidate ELSE TOKEN_PREFIX \o candidate
      suffix == SubSeq(normalized, Len(TOKEN_PREFIX) + 1, Len(normalized))
      generated == [i \in 1..TOKEN_GENERATION_ATTEMPTS |-> TOKEN_PREFIX \o draws[i]]
      unused == FirstUnused(tokens, generated)
  IN  IF candidate # <<>>
      THEN IF suffix = <<>> THEN TokenAnswer(400, <<>>)
           ELSE IF Len(normalized) > TOKEN_MAX_LENGTH THEN TokenAnswer(400, <<>>)
           ELSE IF ~SuffixMatches(suffix) THEN TokenAnswer(400, <<>>)
           ELSE IF normalized \in tokens THEN TokenAnswer(409, <<>>)
           ELSE TokenAnswer(200, normalized)
      ELSE IF unused # <<>> THEN TokenAnswer(200, unused)
      ELSE TokenAnswer(500, <<>>)

token_tables == <<clock, crawlers, heartbeats, runs, rules, alert_states, alert_events, commands, logs, log_request, assignments, api_keys, memory, schema>>

\* create_file_token, line 487: the call of _generate_token_value.  response
\* records the call and what it returned or raised; an HTTPException ends
\* the request.
create_file_token_begin(current_user, requested, draws) ==
  LET answer == _generate_token_value(TokenValues(file_tokens), requested, draws) IN
  /\ response' = [op |-> "_generate_token_value", code |-> answer.code, crawler_id |-> NoId,
                  requested |-> requested, token |-> answer.token,
                  draws |-> IF strip(requested) = <<>> THEN draws ELSE <<>>]
  /\ requests' = IF answer.code = 200
                 THEN Append(requests, [user_id |-> current_user, token_value |-> answer.token])
                 ELSE requests
  /\ UNCHANGED file_tokens
  /\ UNCHANGED token_tables

\* create_file_token, lines 488-500, for the i-th waiting call: db.add and
\* db.commit; the unique index on token refuses a second row with the
\* value (IntegrityError, answered 500).
create_file_token_commit(i) ==
  LET call == requests[i]
      refused == call.token_value \in TokenValues(file_tokens)
  IN  /\ requests' = Without(requests, i)
      /\ file_tokens' = IF refused THEN file_tokens
                        ELSE file_tokens \cup {[id |-> Cardinality(file_tokens) + 1,
                                                token |-> call.token_value, user_id |-> call.user_id]}
      /\ response' = [op |-> "create_file_token", code |-> IF refused THEN 500 ELSE 200,
                      crawler_id |-> NoId, requested |-> <<>>, token |-> call.token_value, draws |-> <<>>]
      /\ UNCHANGED token_tables

Repeat(c, n) == [i \in 1..n |-> c]

RequestedTokens ==
  {<<>>, <<" ", " ">>, <<"d">>, <<" ", "d", "\n">>, <<"u", "p", "-", "d">>, <<"u", "p", "-">>,
   <<"a">>, <<"a", "!">>,
   Repeat("a", TOKEN_MAX_LENGTH - Len(TOKEN_PREFIX)), Repeat("a", TOKEN_MAX_LENGTH - Len(TOKEN_PREFIX) + 1)}

\* What secrets.token_urlsafe may return, cut down to two values.
TokenDraws == [1..TOKEN_GENERATION_ATTEMPTS -> {<<"a">>, <<"b">>}]

\* The loop runs only without a requested value.
DrawsFor(requested) ==
  IF strip(requested) = <<>> THEN TokenDraws ELSE {[i \in 1..TOKEN_GENERATION_ATTEMPTS |-> <<"a">>]}

InitTokens ==
  /\ EmptyStore
  /\ rules = <<>>

NextTokens ==
  \/ \E requested \in RequestedTokens :
       \E draws \in DrawsFor(requested) :
         /\ Cardinality(file_tokens) < MaxFileTokens /\ Len(requests) < MaxInFlight
         /\ create_file_token_begin(1, requested, draws)
  \/ \E i \in 1..Len(requests) : create_file_token_commit(i)

SpecTokens == InitTokens /\ [][NextTokens]_vars

\* ---- the offline counter (SpecHits): one crawler, one status_offline rule
\* with each consecutive_failures and cooldown under test.  The pair's state
\* is absent, or is the one left behind by two offline heartbeats counted
\* before the crawler reported online while the rule was switched off.
HitsRequired == {-1, 0, 1, 2, 3}
HitsCooldowns == {0, 2}

InitHits ==
  /\ clock = 0
  /\ crawlers = <<TenantCrawler(1)>>
  /\ heartbeats = <<>> /\ runs = <<>>
  /\ \E consecutive_failures \in HitsRequired, cooldown_minutes \in HitsCooldowns :
       rules = << Rule(1, 1, "status_offline", "all", {}, NoStatus, NoNumber,
                       consecutive_failures, cooldown_minutes, <<>>) >>
  /\ \/ alert_states = <<>>
     \/ alert_states = (<<1, 1>> :> [NewAlertState(rules[1], crawlers[1]) EXCEPT
                                       !.consecutive_hits = 2, !.last_status = "offline"])
  /\ alert_events = <<>> /\ commands = <<>>
  /\ response = [op |-> "none", code |-> 0, crawler_id |-> NoId]
  /\ logs = <<>> /\ log_request = IdleRequest /\ assignments = <<>> /\ api_keys = <<>>
  /\ NoProcessState

NextHits ==
  \E hint \in ScenarioHints :
    /\ Len(heartbeats) < MaxHitsBeats
    /\ heartbeat(1, 1, 1, hint, MissingValue, TRUE, NetOk)

SpecHits == InitHits /\ [][NextHits]_vars

\* ------------------------------------------------ alert rule edits
Given(payload, field) == field \in DOMAIN payload

\* PATCH /alerts/rules/{rule_id}: payload is the record of the fields the
\* request carries (name and description are not sent in this part).  The
\* handler writes the rule's row only; no row of crawler_alert_states is read
\* or written.
update_alert_rule(current_user, rule_id, payload) ==
  LET found == rule_id \in 1..Len(rules) /\ rules[rule_id].user_id = current_user
      rule == rules[rule_id]
      r1 == IF Given(payload, "trigger_type") /\ payload.trigger_type # rule.trigger_type
            THEN IF payload.trigger_type = "status_offline"
                 THEN [rule EXCEPT !.trigger_type = payload.trigger_type, !.payload_field = NoStatus,
                                   !.comparator = NoStatus, !.threshold = NoNumber]
                 ELSE [rule EXCEPT !.trigger_type = payload.trigger_type]
            ELSE rule
      r2 == IF Given(payload, "target_type") THEN [r1 EXCEPT !.target_type = payload.target_type] ELSE r1
      targets == _validate_alert_targets(current_user, r2.target_type,
                   IF Given(payload, "target_ids") THEN payload.target_ids ELSE r2.target_ids)
      r3 == [r2 EXCEPT !.target_ids = targets.ids]
      r4 == IF r3.trigger_type = "payload_threshold"
            THEN [r3 EXCEPT !.payload_field = IF Given(payload, "payload_field") THEN payload.payload_field ELSE @,
                            !.comparator = IF Given(payload, "comparator") THEN payload.comparator ELSE @,
                            !.threshold = IF Given(payload, "threshold") THEN payload.threshold ELSE @]
            ELSE [r3 EXCEPT !.payload_field = NoStatus, !.comparator = NoStatus, !.threshold = NoNumber]
      r5 == [r4 EXCEPT !.consecutive_failures = IF Given(payload, "consecutive_failures")
                                                THEN payload.consecutive_failures ELSE @,
                       !.cooldown_minutes = IF Given(payload, "cooldown_minutes")
                                            THEN payload.cooldown_minutes ELSE @,
                       !.is_active = IF Given(payload, "is_active") THEN payload.is_active ELSE @]
      code == IF ~found THEN 404 ELSE targets.code
  IN  /\ UNCHANGED <<clock, crawlers, heartbeats, runs, alert_states, alert_events, commands>>
      /\ UNCHANGED other_tables
      /\ rules' = IF code = 200 THEN [rules EXCEPT ![rule_id] = r5] ELSE rules
      /\ response' = [op |-> "update_alert_rule", code |-> code, crawler_id |-> NoId,
                      rule_id |-> IF code = 200 THEN rule_id ELSE NoId]

\* ---- SpecEdit: account 1 with crawlers 1 and 2 and one status_offline rule
\* for all crawlers (three consecutive failures, no cooldown, no channel);
\* crawler 1 reports while the operator edits the rule.
RuleEdits ==
  {[is_active |-> FALSE], [is_active |-> TRUE],
   [consecutive_failures |-> 2], [consecutive_failures |-> 3],
   [target_type |-> "crawler", target_ids |-> {2}], [target_type |-> "all", target_ids |-> {}],
   [target_type |-> "crawler", target_ids |-> {3}],
   [trigger_type |-> "payload_threshold", payload_field |-> "cpu", comparator |-> "gt", threshold |-> 5],
   [trigger_type |-> "status_offline"]}

InitEdit ==
  /\ clock = 0
  /\ crawlers = <<TargetCrawler(1, 1, 1), TargetCrawler(2, NoId, NoId)>>
  /\ heartbeats = <<>> /\ runs = <<>>
  /\ rules = << Rule(1, 1, "status_offline", "all", {}, NoStatus, NoNumber, 3, 0, <<>>) >>
  /\ alert_states = <<>> /\ alert_events = <<>> /\ commands = <<>>
  /\ response = [op |-> "none", code |-> 0, crawler_id |-> NoId]
  /\ logs = <<>> /\ log_request = IdleRequest /\ assignments = <<>> /\ api_keys = <<>>
  /\ NoProcessState

NextEdit ==
  \/ \E hint \in {"offline", "online"} :
       /\ Len(heartbeats) < MaxEditBeats
       /\ heartbeat(1, 1, 0, hint, MissingValue, TRUE, NetOk)
  \/ \E rule_id \in {1, 2}, payload \in RuleEdits :
       update_alert_rule(1, rule_id, payload)

SpecEdit == InitEdit /\ [][NextEdit]_vars

\* ------------------------------------------------ heartbeat listing
\* GET /me/{crawler_id}/heartbeats without start and end.  A record is named
\* by its row's position in the table (its id); the rows of this part were
\* written one per minute, so id order is created_at order.
CeilDiv(a, b) == (a + b - 1) \div b

\* query.order_by(created_at.desc()).limit(limit), reversed: the ids of the
\* crawler's last `limit` rows, oldest first.
LatestOf(crawler_id, limit) ==
  LET ids == SelectSeq([i \in 1..Len(heartbeats) |-> i], LAMBDA i : heartbeats[i].crawler_id = crawler_id)
  IN  SubSeq(ids, Max(1, Len(ids) - limit + 1), Len(ids))

\* lines 1797-1803: evenly spaced sampling once total > max_points
Sampled(records, max_points) ==
  LET total == Len(records)
      step == Max(1, CeilDiv(total, max_points))
      picked == [j \in 1..CeilDiv(total, step) |-> records[(j - 1) * step + 1]]
  IN  IF total <= max_points THEN records
      ELSE IF picked[Len(picked)] # records[total] THEN Append(picked, records[total])
      ELSE picked

my_crawler_heartbeats(current_user, crawler_id, limit, max_points) ==
  /\ UNCHANGED <<clock, crawlers, heartbeats, runs, rules, alert_states, alert_events, commands>>
  /\ UNCHANGED other_tables
  /\ IF ~(crawler_id \in 1..Len(crawlers) /\ crawlers[crawler_id].user_id = current_user)
     THEN response' = [op |-> "my_crawler_heartbeats", code |-> 404, crawler_id |-> NoId,
                       limit |-> limit, max_points |-> max_points, records |-> <<>>]
     ELSE response' = [op |-> "my_crawler_heartbeats", code |-> 200, crawler_id |-> crawler_id,
                       limit |-> limit, max_points |-> max_points,
                       records |-> Sampled(LatestOf(crawler_id, limit), max_points)]

\* ---- SpecList: crawler 1 of account 1 has stored between 0 and MaxListRows
\* heartbeats, one per minute; crawler 2 belongs to account 2.
InitList ==
  /\ \E n \in 0..MaxListRows :
       /\ clock = n
       /\ heartbeats = [i \in 1..n |-> [crawler_id |-> 1, status |-> "online", created_at |-> i]]
  /\ crawlers = <<TenantCrawler(1), TenantCrawler(2)>>
  /\ runs = <<>> /\ rules = <<>>
  /\ alert_states = <<>> /\ alert_events = <<>> /\ commands = <<>>
  /\ response = [op |-> "none", code |-> 0, crawler_id |-> NoId]
  /\ logs = <<>> /\ log_request = IdleRequest /\ assignments = <<>> /\ api_keys = <<>>
  /\ NoProcessState

ListLimits == {LIST_LIMIT_DEFAULT, MAX_POINTS_MINIMUM + 25}
ListMaxPoints == {MAX_POINTS_MINIMUM, MAX_POINTS_MINIMUM + 1, MAX_POINTS_DEFAULT}

NextList ==
  \E crawler_id \in {1, 2}, limit \in ListLimits, max_points \in ListMaxPoints :
    my_crawler_heartbeats(1, crawler_id, limit, max_points)

SpecList == InitList /\ [][NextList]_vars

\* ------------------------------------------------ SDK command workers
\* The three polling loops of sdk/crawler_client.py against the command
\* queue.  requests is the worker process: kind (which loop), handler
\* (whether a custom handler was passed), pc, batch (the fetched commands
\* still to be handled in this round), fetched (the ids the round's fetch
\* returned), rounds (fetches made), acks (every acknowledge sent: command,
\* status, round, and whether the custom handler had raised for it) and
\* executed (the commands handed to the handler or run as a shell command).
\* The service is reachable: every request of the worker is answered.
WorkerKinds == {"run_command_loop", "start_command_worker", "async_start_command_worker"}
CommandNames == {"restart", "shutdown", "run_shell", "pause"}
HandlerOutcomes == {"raises", "returns", "returns_none"}

WorkerCommand(id, name) == TenantCommand(id, 1) @@ [command |-> name]

\* What handling one command does.  ack: the status acknowledged, NoStatus
\* when no acknowledge is sent; executed: the handler or the shell command
\* ran; next: "continue" with the batch, "abort" (an exception left the for
\* loop), "restart" (os.execv) or "exit" (sys.exit).
Handled(ack, executed, next) == [ack |-> ack, executed |-> executed, next |-> next]

\* run_command_loop, lines 519-596.  In the run_shell branch the loop
\* variable cmd is overwritten with payload.get("cmd") (line 553), so
\* cmd["id"] at line 597 raises TypeError after the command has run.
run_command_loop(handler, name, outcome) ==
  IF handler
  THEN IF outcome = "raises" THEN Handled("failed", TRUE, "continue")
       ELSE Handled("success", TRUE, "continue")
  ELSE CASE name = "restart" -> Handled("accepted", FALSE, "restart")
         [] name = "shutdown" -> Handled("accepted", FALSE, "exit")
         [] name = "run_shell" -> Handled(NoStatus, TRUE, "abort")
         [] OTHER -> Handled("success", FALSE, "continue")

\* start_command_worker (thread), lines 634-706
start_command_worker(handler, name, outcome) ==
  IF handler
  THEN IF outcome = "raises" THEN Handled("failed", TRUE, "continue")
       ELSE Handled("success", TRUE, "continue")
  ELSE CASE name = "restart" -> Handled("accepted", FALSE, "restart")
         [] name = "shutdown" -> Handled("accepted", FALSE, "exit")
         [] name = "run_shell" -> Handled("success", TRUE, "continue")
         [] OTHER -> Handled("success", FALSE, "continue")

\* AsyncCrawlerClient.start_command_worker, lines 1318-1386:
\* _maybe_call_handler turns the handler's exception into None, and None
\* selects the default handling, which ends in the one ack_command call.
async_start_command_worker(handler, name, outcome) ==
  IF handler /\ outcome = "returns" THEN Handled("success", TRUE, "continue")
  ELSE Handled("success", handler \/ name = "run_shell", "continue")

WorkerHandled(kind, handler, name, outcome) ==
  CASE kind = "run_command_loop" -> run_command_loop(handler, name, outcome)
    [] kind = "start_command_worker" -> start_command_worker(handler, name, outcome)
    [] OTHER -> async_start_command_worker(handler, name, outcome)

worker_tables == <<clock, crawlers, heartbeats, runs, rules, alert_states, alert_events, logs, log_request, assignments, api_keys, memory, file_tokens, schema>>

\* The fetch that opens a poll round: POST /{crawler_id}/commands/next
sdk_fetch_commands ==
  /\ requests.pc = "sleep" /\ requests.rounds < MaxWorkerRounds
  /\ \E rows \in OrderedBy(Fetchable(1, clock)) :
       LET batch == Limit(rows, COMMAND_FETCH_BATCH) IN
       /\ requests' = [requests EXCEPT !.pc = IF batch = <<>> THEN "sleep" ELSE "handle",
                                       !.batch = batch, !.fetched = batch, !.rounds = @ + 1]
       /\ response' = [op |-> "fetch_commands", code |-> 200, crawler_id |-> 1, ids |-> batch]
  /\ UNCHANGED commands
  /\ UNCHANGED worker_tables

\* One pass of the for loop: the handling of the batch's first command and
\* the acknowledge it sends (POST /{crawler_id}/commands/{id}/ack).
sdk_handle_command(outcome) ==
  LET id == Head(requests.batch)
      did == WorkerHandled(requests.kind, requests.handler, commands[id].command, outcome)
      raised == requests.handler /\ outcome = "raises"
      rest == IF did.next = "continue" THEN Tail(requests.batch) ELSE <<>>
  IN  /\ requests.pc = "handle"
      /\ requests' = [requests EXCEPT
                        !.pc = IF did.next = "exit" THEN "exited"
                               ELSE IF rest = <<>> THEN "sleep" ELSE "handle",
                        !.batch = rest,
                        !.executed = IF did.executed THEN Append(@, id) ELSE @,
                        !.acks = IF did.ack = NoStatus THEN @
                                 ELSE Append(@, [command_id |-> id, status |-> did.ack,
                                                 round |-> requests.rounds, raised |-> raised])]
      /\ IF did.ack = NoStatus
         THEN UNCHANGED <<commands, response>>
         ELSE /\ commands' = [commands EXCEPT ![id] =
                                [@ EXCEPT !.status = did.ack, !.result = "r", !.processed_at = clock]]
              /\ response' = [op |-> "acknowledge_command", code |-> 200, crawler_id |-> 1,
                              ids |-> <<id>>]
      /\ UNCHANGED worker_tables

WorkerBatches ==
  {<<>>} \cup {<<WorkerCommand(1, a)>> : a \in CommandNames}
         \cup {<<WorkerCommand(1, a), WorkerCommand(2, b)>> : a, b \in CommandNames}

InitWorker ==
  /\ clock = 0
  /\ crawlers = <<TenantCrawler(1)>>
  /\ heartbeats = <<>> /\ runs = <<>> /\ rules = <<>>
  /\ alert_states = <<>> /\ alert_events = <<>>
  /\ commands \in WorkerBatches
  /\ response = [op |-> "none", code |-> 0, crawler_id |-> NoId]
  /\ logs = <<>> /\ log_request = IdleRequest /\ assignments = <<>> /\ api_keys = <<>>
  /\ memory = <<>> /\ file_tokens = {} /\ schema = DeclaredSchema
  /\ \E kind \in WorkerKinds, handler \in BOOLEAN :
       requests = [kind |-> kind, handler |-> handler, pc |-> "sleep", batch |-> <<>>,
                   fetched |-> <<>>, rounds |-> 0, acks |-> <<>>, executed |-> <<>>]

NextWorker ==
  \/ sdk_fetch_commands
  \/ \E outcome \in HandlerOutcomes : sdk_handle_command(outcome)

SpecWorker == InitWorker /\ [][NextWorker]_vars

\* ---- SpecPair: one status_offline rule of account 1 (two consecutive
\* offline heartbeats, a cooldown of two minutes) over the account's two
\* crawlers, which report online or offline at their own pace.
InitPair ==
  /\ clock = 0
  /\ crawlers = <<TargetCrawler(1, 1, 1), TargetCrawler(2, NoId, NoId)>>
  /\ heartbeats = <<>> /\ runs = <<>>
  /\ rules = << Rule(1, 1, "status_offline", "all", {}, NoStatus, NoNumber, 2, 2, <<>>) >>
  /\ alert_states = <<>> /\ alert_events = <<>> /\ commands = <<>>
  /\ response = [op |-> "none", code |-> 0, crawler_id |-> NoId]
  /\ logs = <<>> /\ log_request = IdleRequest /\ assignments = <<>> /\ api_keys = <<>>
  /\ NoProcessState

NextPair ==
  \E cid \in {1, 2}, hint \in {"offline", "online"}, gap \in {0, 1} :
    /\ Len(heartbeats) < MaxPairBeats
    /\ heartbeat(1, cid, gap, hint, MissingValue, TRUE, NetOk)

SpecPair == InitPair /\ [][NextPair]_vars

\* ------------------------------------------- heartbeat, reads and writes apart
\* The session is made with autoflush=False (database.py), so a heartbeat
\* request whose alert states exist sends no write before the db.flush() that
\* follows db.add(event): the crawler, the rules and the (rule, crawler) state
\* are read, the rules are evaluated and the cooldown is checked on what was
\* read, and the event, the state, the crawler and the heartbeat row are
\* written afterwards, up to db.commit().  requests is the list of heartbeat
\* requests between their reads and their writes, each with the rows its
\* session holds.
race_tables == <<runs, commands, logs, log_request, assignments, api_keys, memory, file_tokens, schema>>

\* The reads and the evaluation: lines 1091-1121 of heartbeat, with
\* _evaluate_alert_rules on the rows as they are now.
heartbeat_evaluate(k, cid, gap, status_hint) ==
  LET current_time == clock + gap
      previous_status == crawlers[cid].status
      crawler == [_update_crawler_status(crawlers[cid], current_time, status_hint, current_time)
                    EXCEPT !.heartbeat_payload = MissingValue]
      done == _evaluate_alert_rules(crawler, previous_status, current_time, TRUE, NetOk)
      mine == {key \in DOMAIN done.states : key[2] = cid}
  IN  /\ OwnedCrawler(k, cid) # NoId
      /\ \A r \in 1..Len(rules) : HasState(alert_states, r, cid)
      /\ clock' = current_time
      /\ requests' = Append(requests,
           [crawler |-> crawler, current_time |-> current_time,
            states |-> [key \in mine |-> done.states[key]],
            events |-> SubSeq(done.events, Len(alert_events) + 1, Len(done.events)),
            fired |-> {r \in 1..Len(rules) : done.rules[r].last_triggered_at # rules[r].last_triggered_at}])
      /\ UNCHANGED <<crawlers, heartbeats, rules, alert_states, alert_events, response>>
      /\ UNCHANGED race_tables

\* The writes: the flush of the session's new and changed rows and db.commit().
heartbeat_commit(i) ==
  LET req == requests[i]
      cid == req.crawler.id
  IN  /\ crawlers' = [crawlers EXCEPT ![cid] = req.crawler]
      /\ heartbeats' = Append(heartbeats, [crawler_id |-> cid, status |-> req.crawler.status,
                                           created_at |-> req.current_time])
      /\ alert_states' = [key \in DOMAIN alert_states |->
                            IF key \in DOMAIN req.states THEN req.states[key] ELSE alert_states[key]]
      /\ alert_events' = alert_events \o req.events
      /\ rules' = [r \in 1..Len(rules) |->
                     IF r \in req.fired THEN [rules[r] EXCEPT !.last_triggered_at = req.current_time]
                     ELSE rules[r]]
      /\ response' = [op |-> "heartbeat", code |-> 200, crawler_id |-> cid,
                      status |-> req.crawler.status, raised |-> NoStatus, failed_sends |-> {}]
      /\ requests' = Without(requests, i)
      /\ UNCHANGED clock
      /\ UNCHANGED race_tables

\* ---- SpecRace: crawler 1 under one status_offline rule (one offline
\* heartbeat, a cooldown of two minutes); its heartbeats are served one at a
\* time or two at once.
InitRace ==
  /\ clock = 0
  /\ crawlers = <<TargetCrawler(1, 1, 1)>>
  /\ heartbeats = <<>> /\ runs = <<>>
  /\ rules = << Rule(1, 1, "status_offline", "all", {}, NoStatus, NoNumber, 1, 2, <<>>) >>
  /\ alert_states = <<>> /\ alert_events = <<>> /\ commands = <<>>
  /\ response = [op |-> "none", code |-> 0, crawler_id |-> NoId]
  /\ logs = <<>> /\ log_request = IdleRequest /\ assignments = <<>> /\ api_keys = <<>>
  /\ NoProcessState

RaceHints == {"offline", "online"}
RaceGaps == {0, 1}

NextRace ==
  \/ \E hint \in RaceHints, gap \in RaceGaps :
       /\ requests = <<>> /\ Len(heartbeats) < MaxRaceBeats
       /\ heartbeat(1, 1, gap, hint, MissingValue, TRUE, NetOk)
  \/ \E hint \in RaceHints, gap \in RaceGaps :
       /\ Len(requests) < MaxInFlight /\ Len(heartbeats) + Len(requests) < MaxRaceBeats
       /\ heartbeat_evaluate(1, 1, gap, hint)
  \/ \E i \in 1..Len(requests) : heartbeat_commit(i)

SpecRace == InitRace /\ [][NextRace]_vars

\* ------------------------------------------ log writes under working ceilings
\* create_log as one request, on a crawler and an account object that carry
\* the ceilings: the write, both enforcement loops and `return log`.
\* memory notes what the properties speak of: deleted, the rows enforcement
\* has deleted so far; trimmed, the rows the last write's enforcement
\* deleted; written, the number of writes; log_quota_bytes, the account's
\* ceiling.

\* The loop of _enforce_crawler_limits from a measurement on: the rows left.
RECURSIVE TrimCrawler(_, _, _, _)
TrimCrawler(rows, crawler_id, limits, loop_guard) ==
  LET usage == _measure_crawler_usage(rows, crawler_id)
      n == need_delete(limits.max_lines, limits.max_bytes, usage.lines, usage.bytes)
  IN  IF n <= 0 THEN rows
      ELSE LET d == _delete_oldest_crawler_logs(rows, crawler_id, n) IN
           IF loop_guard + 1 >= CrawlerLoopCap THEN d.rows
           ELSE TrimCrawler(d.rows, crawler_id, limits, loop_guard + 1)

\* The loop of _enforce_user_quota.
RECURSIVE TrimUser(_, _, _, _)
TrimUser(rows, user_id, quota, loop_guard) ==
  IF quota = NoNumber \/ _measure_user_usage(rows, user_id).bytes <= quota THEN rows
  ELSE LET d == _delete_oldest_user_logs(rows, user_id, TRIM_CHUNK) IN
       IF d.deleted <= 0 THEN rows
       ELSE IF loop_guard + 1 >= UserLoopCap THEN d.rows
       ELSE TrimUser(d.rows, user_id, quota, loop_guard + 1)

RowIds(rows) == {rows[i].id : i \in 1..Len(rows)}

trim_tables == <<clock, crawlers, heartbeats, runs, rules, alert_states, alert_events, commands, log_request, assignments, api_keys, requests, file_tokens, schema>>

create_log_enforced(k, cid, size) ==
  LET log == [id |-> NextLogId, crawler_id |-> cid, size |-> size]
      written == Append(logs, log)
      limits == _effective_crawler_limits(crawlers[cid])
      q == _effective_user_quota([id |-> KeyUser(k), log_quota_bytes |-> memory.log_quota_bytes])
      after_crawler == TrimCrawler(written, cid, limits, 0)
      after_user == TrimUser(after_crawler, KeyUser(k), q.quota, 0)
      trimmed == {written[i] : i \in {j \in 1..Len(written) : written[j].id \notin RowIds(after_user)}}
      gone == log.id \notin RowIds(after_user)
  IN  /\ OwnedCrawler(k, cid) # NoId
      /\ logs' = after_user
      /\ memory' = [memory EXCEPT !.deleted = @ \cup trimmed, !.trimmed = trimmed,
                                  !.written = @ + 1]
      /\ response' = [op |-> "create_log", code |-> IF gone THEN 500 ELSE 201,
                      crawler_id |-> cid, log_id |-> IF gone THEN NoId ELSE log.id,
                      written |-> log, max_bytes |-> limits.max_bytes, quota |-> q.quota]
      /\ UNCHANGED trim_tables

\* ---- SpecTrim: account 1 with two crawlers; each crawler keeps at most two
\* lines or at most three bytes, the account has no ceiling or one of five
\* bytes; the workers write lines of one, two or four bytes.
TrimLimits == {<<2, 0>>, <<0, 3>>}
TrimQuotas == {0, 5}
TrimSizes == {1, 2, 4}

InitTrim ==
  /\ clock = 0
  /\ \E l1, l2 \in TrimLimits :
       crawlers = <<WithLimits(TargetCrawler(1, 1, 1), l1), WithLimits(TargetCrawler(2, NoId, NoId), l2)>>
  /\ heartbeats = <<>> /\ runs = <<>> /\ rules = <<>>
  /\ alert_states = <<>> /\ alert_events = <<>> /\ commands = <<>>
  /\ response = [op |-> "none", code |-> 0, crawler_id |-> NoId]
  /\ logs = <<>> /\ log_request = IdleRequest /\ assignments = <<>> /\ api_keys = <<>>
  /\ \E q \in TrimQuotas :
       memory = [deleted |-> {}, trimmed |-> {}, written |-> 0, log_quota_bytes |-> q]
  /\ requests = <<>> /\ file_tokens = {} /\ schema = DeclaredSchema

NextTrim ==
  \E cid \in {1, 2}, size \in TrimSizes :
    /\ memory.written < MaxTrimWrites
    /\ create_log_enforced(1, cid, size)

SpecTrim == InitTrim /\ [][NextTrim]_vars

\* ================================================================ properties
\* ---- the offline-heartbeat scenario (SpecScenario): one crawler, one
\* status_offline rule with consecutive_failures = 3, cooldown_minutes = 10.
ScenarioRuleSet ==
  /\ Len(rules) = 1
  /\ rules[1].trigger_type = "status_offline" /\ rules[1].is_active
  /\ rules[1].consecutive_failures = 3 /\ rules[1].cooldown_minutes = 10

\* The heartbeat table holds exactly the heartbeats of the scenario so far:
\* all of crawler 1, all offline, spaced as the sequence gaps says.
OfflineBeats(gaps) ==
  /\ Len(heartbeats) = Len(gaps) + 1
  /\ \A i \in 1..Len(heartbeats) :
       heartbeats[i].crawler_id = 1 /\ heartbeats[i].status = "offline"
  /\ \A i \in 1..Len(gaps) :
       heartbeats[i + 1].created_at = heartbeats[i].created_at + gaps[i]

\* C1: with the rule {status_offline, consecutive_failures 3, cooldown 10},
\* one or two offline heartbeats of a freshly registered crawler create no
\* AlertEvent, the third (one minute apart) creates exactly one, stamped with
\* the time of that third heartbeat, and a fourth one minute later, inside the
\* cooldown, creates no further one.
C1_ThreeOfflineBeatsFireOnce ==
  ScenarioRuleSet =>
    /\ (OfflineBeats(<<>>) \/ OfflineBeats(<<1>>)) => Len(alert_events) = 0
    /\ (OfflineBeats(<<1, 1>>) \/ OfflineBeats(<<1, 1, 1>>)) =>
         /\ Len(alert_events) = 1
         /\ alert_events[1].rule_id = 1 /\ alert_events[1].crawler_id = 1
         /\ alert_events[1].triggered_at = heartbeats[3].created_at

C1_Witness ==
  ScenarioRuleSet /\ OfflineBeats(<<1, 1, 1>>) /\ Len(alert_events) = 1

\* C2 as stated: after the firing on the third heartbeat and a fourth inside
\* the cooldown, the fifth consecutive offline heartbeat, 11 minutes after the
\* firing, creates exactly one more AlertEvent, for a total of two.
C2_FifthBeatFiresAgain ==
  (ScenarioRuleSet /\ OfflineBeats(<<1, 1, 1, 10>>)) => Len(alert_events) = 2

\* C2 amended: the fifth consecutive offline heartbeat, 11 minutes after the
\* firing, creates no AlertEvent (the firing reset consecutive_hits to 0, the
\* fourth and fifth heartbeats bring it to 2 only); the sixth consecutive
\* offline heartbeat creates exactly one more, for a total of two.
C2_SixthBeatFiresAgain ==
  ScenarioRuleSet =>
    /\ OfflineBeats(<<1, 1, 1, 10>>) =>
         /\ Len(alert_events) = 1
         /\ alert_states[<<1, 1>>].consecutive_hits = 2
    /\ (OfflineBeats(<<1, 1, 1, 10, 1>>) \/ OfflineBeats(<<1, 1, 1, 10, 10>>)) =>
         /\ Len(alert_events) = 2
         /\ alert_events[2].triggered_at = heartbeats[6].created_at
         /\ alert_states[<<1, 1>>].consecutive_hits = 0

C2_Witness ==
  ScenarioRuleSet /\ OfflineBeats(<<1, 1, 1, 10, 1>>) /\ Len(alert_events) = 2

\* ---- the alert engine in general (SpecAlert)
\* C3: any two AlertEvents of the same (rule, crawler) pair of a rule with
\* cooldown_minutes > 0 have triggered_at values at least cooldown_minutes apart.
C3_CooldownIsMinimumGap ==
  \A i \in 1..Len(alert_events), j \in 1..Len(alert_events) :
    (i < j /\ alert_events[i].rule_id = alert_events[j].rule_id
           /\ alert_events[i].crawler_id = alert_events[j].crawler_id
           /\ rules[alert_events[i].rule_id].cooldown_minutes > 0)
    => alert_events[j].triggered_at - alert_events[i].triggered_at
         >= rules[alert_events[i].rule_id].cooldown_minutes

C3_Witness ==
  \E i \in 1..Len(alert_events), j \in 1..Len(alert_events) :
    /\ i < j /\ alert_events[i].rule_id = alert_events[j].rule_id
    /\ alert_events[i].crawler_id = alert_events[j].crawler_id
    /\ rules[alert_events[i].rule_id].cooldown_minutes > 0

\* The triggering condition of a rule for the crawler as the heartbeat left it.
Satisfies(n, comparator, threshold) ==
  \/ comparator = "gt" /\ n > threshold
  \/ comparator = "ge" /\ n >= threshold
  \/ comparator = "lt" /\ n < threshold
  \/ comparator = "le" /\ n <= threshold
  \/ comparator = "eq" /\ n = threshold
  \/ comparator = "ne" /\ n # threshold

ConditionHolds(rule, crawler) ==
  IF rule.trigger_type = "status_offline" THEN crawler.status = "offline"
  ELSE /\ crawler.heartbeat_payload.kind \in {"int", "numtext"}
       /\ Satisfies(crawler.heartbeat_payload.n, rule.comparator, rule.threshold)

EvaluatedRules(crawler) ==
  {r \in 1..Len(rules) : /\ rules[r].is_active
                         /\ rules[r].user_id = crawler.user_id
                         /\ _match_alert_rule_target(rules[r], crawler)}

\* C4: after a heartbeat has been evaluated against an active matching rule
\* whose triggering condition does not hold for it (status not offline; field
\* missing, not a number, or failing the comparator), the (rule, crawler)
\* state exists and its consecutive_hits is 0.
C4_HitsResetWhenConditionFails ==
  (response.op = "heartbeat" /\ response.code = 200) =>
    LET crawler == crawlers[response.crawler_id] IN
    \A r \in EvaluatedRules(crawler) :
      ~ConditionHolds(rules[r], crawler) =>
        /\ HasState(alert_states, r, crawler.id)
        /\ alert_states[<<r, crawler.id>>].consecutive_hits = 0

\* A reset that matters: the rule fired earlier, then the condition stopped holding.
C4_Witness ==
  /\ response.op = "heartbeat" /\ response.code = 200
  /\ \E r \in EvaluatedRules(crawlers[response.crawler_id]) :
       /\ rules[r].trigger_type = "payload_threshold"
       /\ ~ConditionHolds(rules[r], crawlers[response.crawler_id])
       /\ HasState(alert_states, r, response.crawler_id)
       /\ alert_states[<<r, response.crawler_id>>].consecutive_hits = 0
       /\ alert_states[<<r, response.crawler_id>>].last_triggered_at # NoTime
  /\ \E r \in EvaluatedRules(crawlers[response.crawler_id]) :
       /\ rules[r].trigger_type = "status_offline"
       /\ ~ConditionHolds(rules[r], crawlers[response.crawler_id])

\* C5 as stated: when the alert step of a heartbeat raises, the request still
\* succeeds and the crawler update, the HeartbeatEvent row and the mirror onto
\* the running run are committed.
C5_AlertFailureKeepsHeartbeat ==
  (response.op = "heartbeat" /\ response.raised # NoStatus) =>
    /\ response.code = 200
    /\ crawlers[response.crawler_id].last_heartbeat = clock
    /\ Len(heartbeats) > 0
    /\ heartbeats[Len(heartbeats)].crawler_id = response.crawler_id
    /\ heartbeats[Len(heartbeats)].created_at = clock
    /\ ActiveRun(response.crawler_id) # NoId =>
         runs[ActiveRun(response.crawler_id)].last_heartbeat = clock

\* C6: a heartbeat during which a channel send failed (and nothing else did:
\* no store error, no conversion error) is answered 200 and committed; the
\* AlertEvent of every rule whose send failed is stored with status failed and
\* the failure detail, and the state's last_triggered_at is stamped with the
\* event's triggered_at.
C6_ChannelFailureAbsorbed ==
  (/\ response.op = "heartbeat" /\ response.code # 404
   /\ response.failed_sends # {}
   /\ response.raised \notin {"OperationalError", "OverflowError"}) =>
    /\ response.code = 200
    /\ crawlers[response.crawler_id].last_heartbeat = clock
    /\ \A r \in response.failed_sends :
         /\ \E i \in 1..Len(alert_events) :
              /\ alert_events[i].rule_id = r
              /\ alert_events[i].crawler_id = response.crawler_id
              /\ alert_events[i].triggered_at = clock
              /\ alert_events[i].status = "failed"
              /\ alert_events[i].error # <<>>
         /\ HasState(alert_states, r, response.crawler_id)
         /\ alert_states[<<r, response.crawler_id>>].last_triggered_at = clock

C6_Witness ==
  /\ response.op = "heartbeat" /\ response.code = 200
  /\ response.failed_sends # {}
  /\ Len(alert_events) > 0
  /\ alert_events[Len(alert_events)].triggered_at = clock
  /\ alert_events[Len(alert_events)].status = "failed"
  /\ \E i \in 1..Len(alert_events[Len(alert_events)].channel_results) :
       alert_events[Len(alert_events)].channel_results[i].status = "failed"

\* ---- the command queue (SpecFetch, SpecAck)
\* A command the pull may return to crawler cid at time t.
Eligible(i, cid, t) ==
  /\ commands[i].crawler_id = cid
  /\ commands[i].status = "pending"
  /\ (commands[i].expires_at = NoTime \/ commands[i].expires_at >= t)

\* C7: a successful fetch_commands returns only commands of the requested
\* crawler that are pending and whose expires_at is null or not yet past, no
\* command twice, at most 5 of them, in ascending creation order, and omits no
\* eligible command older than one it returns.
C7_FetchReturnsOldestPending ==
  (response.op = "fetch_commands" /\ response.code = 200) =>
    LET ids == response.ids
        cid == response.crawler_id IN
    /\ Len(ids) <= 5
    /\ \A i \in 1..Len(ids) :
         ids[i] \in 1..Len(commands) /\ Eligible(ids[i], cid, clock)
    /\ \A i \in 1..Len(ids), j \in 1..Len(ids) :
         i < j => /\ ids[i] # ids[j]
                  /\ commands[ids[i]].created_at <= commands[ids[j]].created_at
    /\ \A m \in 1..Len(commands) :
         (Eligible(m, cid, clock) /\ m \notin Elements(ids)) =>
           \A i \in 1..Len(ids) : commands[m].created_at >= commands[ids[i]].created_at

\* A full batch with an eligible command left behind, while rows of the same
\* table are held back by the limit.
C7_Witness ==
  /\ response.op = "fetch_commands" /\ response.code = 200
  /\ Len(response.ids) = 5
  /\ \E m \in 1..Len(commands) :
       Eligible(m, response.crawler_id, clock) /\ m \notin Elements(response.ids)

\* C8 as stated, for two fetch_commands calls in a row: the later one returns
\* no command the earlier one returned.
C8_FetchConsumesOnce ==
  [][(/\ response.op = "fetch_commands" /\ response.code = 200
      /\ response'.op = "fetch_commands" /\ response'.code = 200)
     => Elements(response.ids) \cap Elements(response'.ids) = {}]_vars

\* C8 amended: fetch_commands consumes nothing. It leaves every command row as
\* it was, the commands it returns are still pending afterwards, and a fetch
\* that directly follows another for the same crawler returns again every
\* command of the earlier one that has not expired meanwhile.
C8_FetchLeavesPending ==
  [][(response'.op = "fetch_commands" /\ response'.code = 200) =>
       /\ commands' = commands
       /\ \A id \in Elements(response'.ids) : commands'[id].status = "pending"
       /\ (/\ response.op = "fetch_commands" /\ response.code = 200
           /\ response.crawler_id = response'.crawler_id) =>
            \A id \in Elements(response.ids) :
              (commands[id].expires_at = NoTime \/ commands[id].expires_at >= clock')
                => id \in Elements(response'.ids)]_vars

\* A fetch has returned commands and they are all still pending.
C8_Witness ==
  /\ response.op = "fetch_commands" /\ response.code = 200
  /\ response.ids # <<>>
  /\ \A i \in 1..Len(response.ids) : commands[response.ids[i]].status = "pending"

\* C9 as stated: every command's status is one of pending, accepted, success,
\* failed; a status only ever changes from pending to accepted, success or
\* failed; a command that has been acknowledged is never pending afterwards.
C9_Lifecycle ==
  [][\A i \in 1..Len(commands') :
       /\ commands'[i].status \in {"pending", "accepted", "success", "failed"}
       /\ (i <= Len(commands) /\ commands'[i].status # commands[i].status) =>
            /\ commands[i].status = "pending"
            /\ commands'[i].status \in {"accepted", "success", "failed"}
       /\ (i <= Len(commands) /\ commands[i].processed_at # NoTime) =>
            commands'[i].status # "pending"]_vars

\* C10: an acknowledge of a command that has been acknowledged before, by the
\* worker that owns it, is answered 200, leaves the number of rows and every
\* other row as they were, keeps the row's id, and leaves in the row the
\* status, result and processed_at of this last acknowledge.
C10_AckIdempotent ==
  [][(/\ response'.op = "acknowledge_command"
      /\ OwnedCommand(response'.request.api_key, response'.request.crawler_id,
                      response'.request.command_id) # NoId
      /\ commands[response'.request.command_id].processed_at # NoTime) =>
       LET request == response'.request
           id == request.command_id IN
       /\ response'.code = 200
       /\ Len(commands') = Len(commands)
       /\ \A i \in 1..Len(commands) : i # id => commands'[i] = commands[i]
       /\ commands'[id].id = id
       /\ commands'[id].crawler_id = commands[id].crawler_id
       /\ commands'[id].created_at = commands[id].created_at
       /\ commands'[id].status = (IF request.status = NoStatus THEN "done" ELSE request.status)
       /\ commands'[id].result = (IF request.result = NoResult THEN EmptyResult ELSE request.result)
       /\ commands'[id].processed_at = clock']_vars

\* A second acknowledge has overwritten the fields the first one wrote.
C10_Witness ==
  /\ response.op = "acknowledge_command" /\ response.code = 200
  /\ response.repeated
  /\ commands[response.ids[1]].status = "failed"
  /\ commands[response.ids[1]].result = EmptyResult
  /\ Len(commands) = MaxAckCommands

\* ---- log quota enforcement (SpecQuota, SpecLog)
RECURSIVE StoredBytes(_, _, _)
StoredBytes(rows, cids, i) ==
  IF i > Len(rows) THEN 0
  ELSE (IF rows[i].crawler_id \in cids THEN rows[i].size ELSE 0) + StoredBytes(rows, cids, i + 1)

StoredLines(rows, cids) == Cardinality({i \in 1..Len(rows) : rows[i].crawler_id \in cids})

\* The step on which _enforce_crawler_limits / _enforce_user_quota returns.
CrawlerEnforcementReturns ==
  /\ log_request.pc \in {"crawler_begin", "crawler_measure"}
  /\ log_request'.pc = "user_begin"
  /\ log_request'.crawler_raised = NoStatus

UserEnforcementReturns ==
  /\ log_request.pc \in {"user_begin", "user_delete", "user_measure"}
  /\ log_request'.pc = "return"
  /\ log_request'.user_raised = NoStatus

\* C11: when per-crawler enforcement returns, the crawler's stored lines are
\* at most max_lines and its stored bytes at most max_bytes, for each ceiling
\* that is finite, unless 20 iterations were made; when per-account
\* enforcement returns, the account's stored bytes are at most its finite
\* quota, unless 50 iterations were made.
C11_QuotaPostCondition ==
  [][ /\ CrawlerEnforcementReturns =>
           LET r == log_request'
               cids == {r.crawler_id}
           IN  \/ r.loop_guard >= CrawlerLoopCap
               \/ /\ r.max_lines # NoNumber => StoredLines(logs', cids) <= r.max_lines
                  /\ r.max_bytes # NoNumber => StoredBytes(logs', cids, 1) <= r.max_bytes
      /\ UserEnforcementReturns =>
           LET r == log_request'
               cids == UserCrawlers(KeyUser(r.api_key))
           IN  \/ r.loop_guard >= UserLoopCap
               \/ r.quota # NoNumber => StoredBytes(logs', cids, 1) <= r.quota
    ]_vars

\* Per-crawler enforcement has returned after trimming the crawler down to
\* exactly its line ceiling, below the iteration cap.
C11_Witness ==
  /\ log_request.pc = "user_begin"
  /\ log_request.crawler_raised = NoStatus
  /\ log_request.max_lines # NoNumber
  /\ log_request.loop_guard \in 1..(CrawlerLoopCap - 1)
  /\ StoredLines(logs, {log_request.crawler_id}) = log_request.max_lines

\* C14: the per-crawler loop makes at most 20 delete-and-re-measure
\* iterations and the per-account loop at most 50, whatever other workers
\* write in between.
C14_LoopsAreCapped ==
  /\ log_request.pc \in {"crawler_delete", "crawler_measure"} =>
       log_request.loop_guard < CrawlerLoopCap
  /\ log_request.pc = "user_begin" => log_request.loop_guard <= CrawlerLoopCap
  /\ log_request.pc \in {"user_delete", "user_measure"} =>
       log_request.loop_guard < UserLoopCap
  /\ log_request.pc = "return" => log_request.loop_guard <= UserLoopCap

\* The per-crawler loop stopped at its cap with the crawler still above its
\* line ceiling.
C14_Witness ==
  /\ log_request.pc = "user_begin"
  /\ log_request.crawler_raised = NoStatus
  /\ log_request.loop_guard = CrawlerLoopCap
  /\ log_request.max_lines # NoNumber
  /\ log_request.lines > log_request.max_lines

\* C12: with the line ceiling N asked for the crawler, after each answered
\* log write the crawler holds at most N rows, and once more than N lines
\* were written it holds exactly the N most recently written ones.
C12_KeepsLastN ==
  (log_request.pc = "idle" /\ response.op = "create_log" /\ response.code = 201) =>
    LET mine == RowsOf(logs, {response.crawler_id})
        written == response.log_id
    IN  /\ Len(mine) <= AskedMaxLines
        /\ written > AskedMaxLines =>
             {mine[i].id : i \in 1..Len(mine)} = (written - AskedMaxLines + 1)..written

\* C13: a log write for a crawler of the caller is answered 201 with the row
\* it wrote, whatever the two enforcement calls raised or deleted.
C13_EnforcementNeverFailsWrite ==
  (response.op = "create_log" /\ response.code # 404) =>
    /\ response.code = 201
    /\ \E i \in 1..Len(logs) : /\ logs[i].id = response.log_id
                               /\ logs[i].crawler_id = response.crawler_id

\* A write was answered 201 although both enforcement calls raised.
C13_Witness ==
  /\ response.op = "create_log"
  /\ response.code = 201
  /\ response.crawler_raised = "AttributeError"
  /\ response.user_raised = "AttributeError"

\* ---- config assignments (SpecConfig, SpecVersion)
ActiveFor(user, type, id) ==
  {i \in 1..Len(assignments) : /\ assignments[i].user_id = user
                               /\ assignments[i].is_active
                               /\ assignments[i].target_type = type
                               /\ assignments[i].target_id = id}

\* The ids the precedence crawler > credential > group allows as an answer.
Precedence(crawler) ==
  LET own == ActiveFor(crawler.user_id, "crawler", crawler.id)
      key == IF crawler.api_key_id = NoId THEN {}
             ELSE ActiveFor(crawler.user_id, "api_key", crawler.api_key_id)
      grp == IF crawler.group_id = NoId THEN {}
             ELSE ActiveFor(crawler.user_id, "group", crawler.group_id)
  IN  IF own # {} THEN own ELSE IF key # {} THEN key ELSE IF grp # {} THEN grp ELSE {NoId}

\* C15: a config fetch answers with the crawler's active crawler-level
\* assignment, else the active one of its credential, else the active one of
\* its group, else with the "no config" sentinel; an inactive assignment is
\* never the answer and never hides an active one of lower precedence.
C15_ResolutionPrecedence ==
  [][ (response'.op = "fetch_crawler_config" /\ response'.code = 200) =>
        /\ response'.assignment_id \in Precedence(crawlers[response'.crawler_id])
        /\ response'.has_config = (response'.assignment_id # NoId)
        /\ response'.has_config =>
             /\ assignments[response'.assignment_id].is_active
             /\ response'.version = assignments[response'.assignment_id].version
             /\ response'.content = assignments[response'.assignment_id].content
    ]_vars

\* The fetch answered with the credential-level assignment while an
\* inactive crawler-level one and an active group-level one exist.
C15_Witness ==
  /\ response.op = "fetch_crawler_config"
  /\ response.code = 200
  /\ response.has_config
  /\ response.assignment_id \in 1..Len(assignments)
  /\ assignments[response.assignment_id].target_type = "api_key"
  /\ \E i \in 1..Len(assignments) : /\ assignments[i].target_type = "crawler"
                                    /\ ~assignments[i].is_active
  /\ \E i \in 1..Len(assignments) : /\ assignments[i].target_type = "group"
                                    /\ assignments[i].is_active

\* C16: a new assignment has version 1; an edit raises the version by
\* exactly one when it changes the content and leaves it as it is otherwise
\* (name, description, format, template, is_active).
C16_VersionCountsContentChanges ==
  [][ /\ Len(assignments') >= Len(assignments)
      /\ \A i \in 1..Len(assignments') :
           IF i > Len(assignments) THEN assignments'[i].version = 1
           ELSE assignments'[i].version =
                  assignments[i].version +
                    (IF assignments'[i].content # assignments[i].content THEN 1 ELSE 0)
    ]_vars

\* An assignment edited in content once and in its metadata: version 2.
C16_Witness ==
  \E i \in 1..Len(assignments) :
    /\ assignments[i].version = 2
    /\ assignments[i].content = "b"
    /\ assignments[i].name = "n2"
    /\ assignments[i].format = "yaml"
    /\ ~assignments[i].is_active

\* ---- status derivation and storage (SpecDerive, SpecStatus)
StatusRank(s) == CASE s = "online" -> 0 [] s = "warning" -> 1 [] s = "offline" -> 2 [] OTHER -> 3

\* C17: the derived status is offline without a last heartbeat, online up to
\* and including 300 s of elapsed time, warning up to and including 900 s,
\* offline beyond; and for one value of now a longer elapsed time never gives
\* a status earlier in the order online, warning, offline.
C17_DeriveTotalAndMonotonic ==
  [][ response'.op = "_compute_status" =>
        LET r == response'
            elapsed == r.now - r.last_heartbeat
        IN  /\ r.status = IF r.last_heartbeat = NoTime THEN "offline"
                          ELSE IF elapsed <= 300 THEN "online"
                          ELSE IF elapsed <= 900 THEN "warning"
                          ELSE "offline"
            /\ ( /\ response.op = "_compute_status"
                 /\ response.now = r.now
                 /\ response.last_heartbeat # NoTime /\ r.last_heartbeat # NoTime
                 /\ r.last_heartbeat <= response.last_heartbeat )
               => StatusRank(r.status) >= StatusRank(response.status)
    ]_vars

\* Exactly 900 s after the last heartbeat the status is still warning.
C17_Witness ==
  /\ response.op = "_compute_status"
  /\ response.last_heartbeat # NoTime
  /\ response.now - response.last_heartbeat = 900
  /\ response.status = "warning"

\* C18: the stored status of every crawler is online, warning or offline.
C18_StoredStatusInRange ==
  \A c \in 1..Len(crawlers) : crawlers[c].status \in {"online", "warning", "offline"}

\* C19: a heartbeat stores the status of its body when the body has one and
\* the time-derived status otherwise, and status_changed_at becomes now
\* exactly when the stored status changes.
C19_HeartbeatStoresStatus ==
  [][ \A gap \in StatusGaps, hint \in BodyStatuses :
        (OwnedCrawler(1, 1) # NoId /\ heartbeat(1, 1, gap, hint, MissingValue, TRUE, NetOk)) =>
          LET current_time == clock + gap
              before == crawlers[1]
              after == crawlers'[1]
              \* the heartbeat itself is the last heartbeat: no time has elapsed
              expected == IF hint \notin {NoStatus, ""} THEN hint ELSE "online"
          IN  /\ after.status = expected
              /\ after.last_heartbeat = current_time
              /\ after.status_changed_at = IF expected # before.status THEN current_time
                                           ELSE before.status_changed_at
    ]_vars

\* A heartbeat that kept the status left status_changed_at at an earlier time.
C19_Witness ==
  /\ response.op = "heartbeat"
  /\ response.code = 200
  /\ crawlers[1].last_heartbeat = clock
  /\ crawlers[1].status = "warning"
  /\ crawlers[1].status_changed_at < clock

\* ---- worker authentication (SpecAuth)
\* The addresses an allow-list text admits; {} when it restricts nothing.
ListedIps(allowed_ips) ==
  CASE allowed_ips = "ip1" -> {"ip1"}
    [] allowed_ips = "ip1, ip2" -> {"ip1", "ip2"}
    [] OTHER -> {}

\* C20: a missing, unknown or inactive secret is answered 401 whatever the
\* caller's address; a known active secret from an address outside its
\* allow-list is answered 403; neither changes last_used_at or last_used_ip
\* of any credential; an accepted request sets both on its credential only.
C20_AuthRejectsAndKeepsBookkeeping ==
  [][ \A x_api_key \in Secrets, has_client \in BOOLEAN, x_real_ip \in RealIps, gap \in AuthGaps :
        _require_api_key(x_api_key, has_client, x_real_ip, gap) =>
          LET valid == {i \in 1..Len(api_keys) : /\ x_api_key \notin {NoStatus, ""}
                                                 /\ api_keys[i].key = x_api_key
                                                 /\ api_keys[i].active}
              caller == IF has_client THEN x_real_ip ELSE NoStatus
          IN  IF valid = {}
              THEN response'.code = 401 /\ api_keys' = api_keys
              ELSE \A i \in valid :
                     IF ListedIps(api_keys[i].allowed_ips) # {} /\ caller \notin ListedIps(api_keys[i].allowed_ips)
                     THEN response'.code = 403 /\ api_keys' = api_keys
                     ELSE /\ response'.code = 200
                          /\ response'.api_key_id = i
                          /\ api_keys' = [api_keys EXCEPT ![i].last_used_at = clock + gap,
                                                          ![i].last_used_ip = caller]
    ]_vars

\* A credential used before was refused with 403 later on, and its
\* bookkeeping still shows the earlier use.
C20_Witness ==
  /\ response.op = "_require_api_key"
  /\ response.code = 403
  /\ api_keys[1].last_used_at # NoTime
  /\ api_keys[1].last_used_at < clock
  /\ api_keys[1].last_used_ip = "ip1"

\* C21: a request whose credential passed every check is answered as
\* authenticated (200) even when the commit of last_used_at / last_used_ip
\* failed.
C21_BookkeepingFailureTolerated ==
  (response.op = "_require_api_key" /\ "raised" \in DOMAIN response) => response.code = 200

InWindow(calls, w, field) == {k \in 1..Len(calls) : w <= calls[k][field] /\ calls[k][field] < w + RateWindow}

\* C22: for each account, of the calls the limiter let through, at most
\* LOG_QUERY_RATE_PER_SECOND carry a time inside any one-second window
\* [w, w + 1s), the time of a call being the time.time() it read.
C22_AtMostLimitPerWindow ==
  \A u \in RateUsers : \A w \in 0..MaxRateClock :
    Cardinality(InWindow(requests.let_through[u], w, "now")) <= rate_limit

\* The same count taken on the instants at which the calls returned.
C22_AtMostLimitReturnedPerWindow ==
  \A u \in RateUsers : \A w \in 0..MaxRateClock :
    Cardinality(InWindow(requests.let_through[u], w, "at")) <= rate_limit

Owner(cid) == crawlers[cid].user_id

tenant_rows == <<crawlers, commands, logs, heartbeats, alert_states, alert_events, rules>>

RefusedUntouched == response'.code = 404 /\ UNCHANGED tenant_rows

\* What a heartbeat of account `user` leaves alone: the rules of the other
\* accounts, and their alert states and events.
OtherAccountsAlertsKept(user) ==
  /\ \A i \in 1..Len(rules) : rules[i].user_id # user => rules'[i] = rules[i]
  /\ \A key \in DOMAIN alert_states' :
       rules[key[1]].user_id # user => key \in DOMAIN alert_states /\ alert_states'[key] = alert_states[key]
  /\ \A i \in 1..Len(alert_events') :
       i > Len(alert_events) => alert_events'[i].user_id = user /\ rules[alert_events'[i].rule_id].user_id = user

\* C23: a worker request of one account addressed to a crawler (or to a
\* command of a crawler) of another account is answered 404 and changes no
\* crawler, command, log, heartbeat, rule, alert state or alert event; the
\* alert evaluation of a heartbeat touches only rules, states and events of
\* the caller's account; and a log row deleted by the trimming of a log write
\* belongs to a crawler of the caller's account.
C23_TenantScoping ==
  [][ /\ response'.op = "create_log" =>
           \A k \in ApiKeys, cid \in CrawlerIds, size \in TenantSizes :
             Owner(cid) # KeyUser(k) /\ create_log(k, cid, size) => RefusedUntouched
      /\ response'.op = "fetch_crawler_config" =>
           \A k \in ApiKeys, cid \in CrawlerIds :
             Owner(cid) # KeyUser(k) /\ fetch_crawler_config(k, cid) => RefusedUntouched
      /\ response'.op = "fetch_commands" =>
           \A k \in ApiKeys, cid \in CrawlerIds :
             Owner(cid) # KeyUser(k) /\ fetch_commands(k, cid, 0) => RefusedUntouched
      /\ response'.op = "acknowledge_command" =>
           \A k \in ApiKeys, cid \in CrawlerIds, command_id \in 1..Len(commands) :
             /\ Owner(cid) # KeyUser(k) \/ Owner(commands[command_id].crawler_id) # KeyUser(k)
             /\ acknowledge_command(k, cid, command_id, 0, NoStatus, NoResult)
             => RefusedUntouched
      /\ response'.op = "heartbeat" =>
           \A k \in ApiKeys, cid \in CrawlerIds, gap \in TenantGaps, hint \in TenantHints :
             heartbeat(k, cid, gap, hint, MissingValue, TRUE, NetOk) =>
               /\ OtherAccountsAlertsKept(KeyUser(k))
               /\ Owner(cid) # KeyUser(k) => RefusedUntouched
      /\ \A i \in 1..Len(logs) :
           (\A j \in 1..Len(logs') : logs'[j].id # logs[i].id) =>
             /\ log_request.pc # "idle"
             /\ Owner(logs[i].crawler_id) = KeyUser(log_request.api_key)
    ]_vars

\* Account 1's heartbeat has fired its own rule, its log write has trimmed
\* a row, a request of key 1 to crawler 2 was refused, and account 2's
\* rule, command and log line are as they were.
C23_Witness ==
  /\ response.code = 404 /\ response.op = "acknowledge_command"
  /\ response.request.api_key = 1 /\ response.request.command_id = 1
  /\ Len(alert_events) > 0
  /\ \A i \in 1..Len(alert_events) : alert_events[i].user_id = 1
  /\ \A i \in 1..Len(logs) : logs[i].id # 2
  /\ \E i \in 1..Len(logs) : logs[i].id = 1
  /\ commands[1].status = "pending"
  /\ rules[1].last_triggered_at = NoTime

\* The membership the rule's declared target kind asks for.
InDeclaredTargets(rule, crawler) ==
  CASE rule.target_type = "all" -> TRUE
    [] rule.target_type = "crawler" -> crawler.id \in rule.target_ids
    [] rule.target_type = "api_key" -> crawler.api_key_id \in rule.target_ids
    [] rule.target_type = "group" -> crawler.group_id \in rule.target_ids
    [] OTHER -> FALSE

\* C24: a rule has been evaluated for a crawler (an alert state of the pair
\* exists) only if its target kind is all or the crawler's id, credential id
\* or group id, as the kind says, is one of the rule's target_ids.
C24_EvaluatedOnlyForDeclaredTargets ==
  \A key \in DOMAIN alert_states : InDeclaredTargets(rules[key[1]], crawlers[key[2]])

\* C25: within an account no two crawlers carry the same name, whatever
\* register calls were made and through whichever credentials.
C25_OneCrawlerPerName ==
  \A i, j \in 1..Len(crawlers) :
    crawlers[i].user_id = crawlers[j].user_id /\ crawlers[i].name = crawlers[j].name => i = j

\* C26: at most one crawler is bound to a credential, under every
\* interleaving of register requests.
C26_OneCrawlerPerCredential ==
  \A k \in 1..Len(api_keys) : Cardinality(BoundCrawlers(k)) <= 1

HasResult(results, status) == \E j \in 1..Len(results) : results[j].status = status

\* C28: a stored alert event is never pending.  Unless the dispatch call
\* itself raised (the event is then failed, with the exception as its error
\* and no result), it carries one result per channel of its rule, in channel
\* order; a rule without channels gives the one placeholder none/skipped; a
\* disabled channel gives skipped; and the event's status is failed if some
\* result is failed, else sent if some result is sent, else skipped.
C28_DispatchedEventStatus ==
  \A i \in 1..Len(alert_events) :
    LET event == alert_events[i]
        channels == rules[event.rule_id].channels
        results == event.channel_results
    IN  /\ event.status \in {"sent", "failed", "skipped"}
        /\ \/ /\ results = <<>>
              /\ event.status = "failed" /\ event.error = <<"dispatch exception">>
           \/ /\ Len(results) = IF channels = <<>> THEN 1 ELSE Len(channels)
              /\ channels = <<>> => results[1].type = "none" /\ results[1].status = "skipped"
              /\ \A j \in 1..Len(channels) :
                   /\ results[j].type = channels[j].type
                   /\ results[j].status \in {"sent", "failed", "skipped"}
                   /\ ~channels[j].enabled => results[j].status = "skipped"
              /\ event.status = IF HasResult(results, "failed") THEN "failed"
                                ELSE IF HasResult(results, "sent") THEN "sent" ELSE "skipped"

\* One heartbeat fired both rules: the event of the rule with a disabled
\* e-mail channel followed by a webhook whose POST was answered with an
\* error is failed with the results skipped, failed; the event of the rule
\* without channels is skipped with the placeholder.
C28_Witness ==
  /\ Len(alert_events) >= 2
  /\ rules[1].channels = <<Channel("email", TRUE, FALSE), Channel("webhook", TRUE, TRUE)>>
  /\ \E i, j \in 1..Len(alert_events) :
       /\ alert_events[i].rule_id = 1 /\ alert_events[i].status = "failed"
       /\ Len(alert_events[i].channel_results) = 2
       /\ alert_events[i].channel_results[1].status = "skipped"
       /\ alert_events[i].channel_results[2].status = "failed"
       /\ alert_events[j].rule_id = 2 /\ alert_events[j].status = "skipped"
       /\ alert_events[j].channel_results[1].type = "none"

\* The step is a stats request that was answered with a result.
StatsAnswered ==
  /\ log_request.pc = "idle" /\ UNCHANGED log_request
  /\ response'.op = "my_crawler_logs_stats" /\ response'.code = 200

Unexpired(cache, key, time) ==
  /\ key \in DOMAIN cache
  /\ time - cache[key].ts <= STATS_CACHE_TTL

\* C29: a stats query whose key has an entry stored at most the TTL ago
\* returns the stored result and leaves the cache as it is, whatever was
\* written to or removed from the logs since; a query whose key has no entry,
\* or an entry older than the TTL, computes the result from the rows and
\* stores it under the key with the time of the query.
C29_StatsCachedPerKeyWithinTtl ==
  [][StatsAnswered =>
       LET key == response'.key
           cache == memory._PRIVATE_STATS_CACHE
           rows == CrawlerRows(key[2])
       IN  IF Unexpired(cache, key, clock')
           THEN response'.body = cache[key].data /\ UNCHANGED memory
           ELSE /\ response'.body = IF Len(rows) = 0 THEN EmptyStatsResult ELSE StatsResult(rows)
                /\ key \in DOMAIN memory'._PRIVATE_STATS_CACHE
                /\ memory'._PRIVATE_STATS_CACHE[key] = [ts |-> clock', data |-> response'.body]]_vars

\* The same for the queries that find at least one row.
C29_CachedWhenRowsMatch ==
  [][StatsAnswered /\ Len(CrawlerRows(response'.key[2])) > 0 =>
       LET key == response'.key
           cache == memory._PRIVATE_STATS_CACHE
       IN  IF Unexpired(cache, key, clock')
           THEN response'.body = cache[key].data /\ UNCHANGED memory
           ELSE /\ response'.body = StatsResult(CrawlerRows(key[2]))
                /\ memory'._PRIVATE_STATS_CACHE[key] = [ts |-> clock', data |-> response'.body]]_vars

\* A stored result was passed over: the key has an unexpired entry and the
\* answer is not its data.
C29_StoredResultPassedOver ==
  [][StatsAnswered /\ Unexpired(memory._PRIVATE_STATS_CACHE, response'.key, clock')
       => response'.body = memory._PRIVATE_STATS_CACHE[response'.key].data]_vars

\* The step is a call of _generate_token_value.
GenerateStep ==
  /\ response'.op = "_generate_token_value"
  /\ UNCHANGED file_tokens
  /\ Len(requests') >= Len(requests)

\* C30: _generate_token_value never returns a value that a row of the table
\* carries.  A requested value whose "up-"-prefixed form is in the table is
\* answered 409 and nothing is created; without a requested value the values
\* drawn are tried in turn, the first one not in the table is returned, and
\* when all of the bounded number of draws are in use the call is answered
\* 500.  Only a call that returned a value goes on to insert a row, and the
\* table never holds two rows with one token.
C30_TokenNeverInUse ==
  [][/\ GenerateStep =>
          LET used == TokenValues(file_tokens)
              candidate == strip(response'.requested)
              prefixed == IF startswith(candidate, TOKEN_PREFIX) THEN candidate ELSE TOKEN_PREFIX \o candidate
              drawn == [i \in 1..TOKEN_GENERATION_ATTEMPTS |-> TOKEN_PREFIX \o response'.draws[i]]
              free == {i \in 1..TOKEN_GENERATION_ATTEMPTS : drawn[i] \notin used}
          IN  /\ response'.code = 200 =>
                   /\ response'.token \notin used
                   /\ startswith(response'.token, TOKEN_PREFIX)
                   /\ requests' = Append(requests, [user_id |-> 1, token_value |-> response'.token])
              /\ response'.code # 200 => UNCHANGED requests
              /\ candidate # <<>> /\ prefixed \in used => response'.code = 409
              /\ candidate # <<>> /\ response'.code = 200 => response'.token = prefixed
              /\ candidate = <<>> =>
                   IF free = {} THEN response'.code = 500
                   ELSE /\ response'.code = 200
                        /\ \E i \in free : response'.token = drawn[i] /\ \A j \in free : i <= j
     /\ file_tokens' # file_tokens =>
          \E row \in file_tokens' :
            /\ row.token \notin TokenValues(file_tokens)
            /\ file_tokens' = file_tokens \cup {row}
     /\ \A r1, r2 \in file_tokens' : r1.token = r2.token => r1 = r2]_vars

\* The table holds up-d; the last call asked for " d\n" and was answered
\* 409 with no call left waiting.
C30_Witness ==
  /\ TokenValues(file_tokens) = {<<"u", "p", "-", "d">>}
  /\ response.op = "_generate_token_value" /\ response.code = 409
  /\ response.requested = <<" ", "d", "\n">>
  /\ requests = <<>>

\* A generated value collided and the next one was returned: up-a is in the
\* table, the draws began a, b, and the call returned up-b.
C30_RegeneratedAfterCollision ==
  /\ <<"u", "p", "-", "a">> \in TokenValues(file_tokens)
  /\ response.op = "_generate_token_value" /\ response.code = 200
  /\ response.requested = <<>> /\ response.draws[1] = <<"a">> /\ response.draws[2] = <<"b">>
  /\ response.token = <<"u", "p", "-", "b">>

\* The heartbeat of the step was stored: its crawler and its row.
BeatStored == Len(heartbeats') = Len(heartbeats) + 1

BeatCrawler == heartbeats'[Len(heartbeats')].crawler_id

\* The events the step created for rule r.
NewEventsOf(r) ==
  {i \in (Len(alert_events) + 1)..Len(alert_events') : alert_events'[i].rule_id = r}

\* Rule r is evaluated for the step's crawler: active, of the crawler's
\* account, and the crawler is one of its targets.
EvaluatedFor(r, cid) ==
  /\ rules[r].is_active /\ rules[r].user_id = crawlers[cid].user_id
  /\ rules[r].target_type = "all" \/ rules[r].target_ids = {}
       \/ (rules[r].target_type = "crawler" /\ cid \in rules[r].target_ids)
       \/ (rules[r].target_type = "api_key" /\ crawlers[cid].api_key_id \in rules[r].target_ids)
       \/ (rules[r].target_type = "group" /\ crawlers[cid].group_id \in rules[r].target_ids)

\* The pair's last fire lies less than the rule's cooldown before time t.
WithinCooldown(r, cid, t) ==
  /\ HasState(alert_states, r, cid)
  /\ alert_states[<<r, cid>>].last_triggered_at # NoTime
  /\ rules[r].cooldown_minutes > 0
  /\ t - alert_states[<<r, cid>>].last_triggered_at < rules[r].cooldown_minutes

\* The counter rule r reaches for the crawler with this heartbeat, when the
\* heartbeat meets the rule's condition; NoNumber when it does not.
HitsWhenMet(r, cid) ==
  LET hits == IF HasState(alert_states, r, cid) THEN alert_states[<<r, cid>>].consecutive_hits ELSE 0
  IN  IF rules[r].trigger_type = "status_offline"
      THEN IF crawlers'[cid].status # "offline" THEN NoNumber
           ELSE IF crawlers[cid].status # "offline" THEN 1 ELSE hits + 1
      ELSE IF _compare_threshold(crawlers'[cid].heartbeat_payload, rules[r].threshold, rules[r].comparator) = "true"
           THEN hits + 1 ELSE NoNumber

\* C31: a stored heartbeat that fires rule r for its crawler leaves the
\* pair's consecutive_hits at 0 and the event's triggered_at as
\* last_triggered_at of both the pair's state and the rule.  A stored
\* heartbeat that triggers rule r (the counter reaches consecutive_failures)
\* inside the pair's cooldown creates no event for r, leaves last_triggered_at
\* of the state and of the rule as they were, and leaves the counter at its
\* incremented value.
C31_FireResetsAndStampsSuppressionKeepsHits ==
  [][BeatStored =>
       \A r \in 1..Len(rules) :
         LET cid == BeatCrawler
             key == <<r, cid>>
             met == HitsWhenMet(r, cid)
         IN  /\ \A i \in NewEventsOf(r) :
                  /\ alert_events'[i].crawler_id = cid
                  /\ alert_events'[i].triggered_at = clock'
                  /\ alert_states'[key].consecutive_hits = 0
                  /\ alert_states'[key].last_triggered_at = alert_events'[i].triggered_at
                  /\ rules'[r].last_triggered_at = alert_events'[i].triggered_at
             /\ (/\ EvaluatedFor(r, cid) /\ WithinCooldown(r, cid, clock')
                 /\ met # NoNumber /\ met >= Max(rules[r].consecutive_failures, 1))
                  => /\ NewEventsOf(r) = {}
                     /\ alert_states'[key].last_triggered_at = alert_states[key].last_triggered_at
                     /\ rules'[r].last_triggered_at = rules[r].last_triggered_at
                     /\ alert_states'[key].consecutive_hits = met]_vars

\* Rule 1 has fired for crawler 1 one minute ago and the offline heartbeat
\* just stored was suppressed by its cooldown: one event, the counter at 1,
\* last_triggered_at still the time of the event.
C31_Witness ==
  /\ Len(heartbeats) = 2 /\ heartbeats[2].status = "offline"
  /\ Len(alert_events) = 1 /\ alert_events[1].rule_id = 1
  /\ alert_events[1].triggered_at = heartbeats[1].created_at
  /\ heartbeats[2].created_at = heartbeats[1].created_at + 1
  /\ HasState(alert_states, 1, 1)
  /\ alert_states[<<1, 1>>].consecutive_hits = 1
  /\ alert_states[<<1, 1>>].last_triggered_at = alert_events[1].triggered_at
  /\ rules[1].last_triggered_at = alert_events[1].triggered_at

\* C32: for a status_offline rule and a stored heartbeat that leaves the
\* crawler offline, the counter reached is 1 when the status stored before
\* the heartbeat was not offline and the old counter plus 1 otherwise.  The
\* rule is triggered exactly when that counter is at least
\* consecutive_failures (a value below 1 counting as 1): below it no event is
\* created and the counter is stored; at or above it an event is created
\* unless the pair is inside its cooldown, and the counter is stored when no
\* event is created.
C32_OfflineCounterAndTrigger ==
  [][BeatStored /\ crawlers'[BeatCrawler].status = "offline" =>
       \A r \in 1..Len(rules) :
         (rules[r].trigger_type = "status_offline" /\ EvaluatedFor(r, BeatCrawler)) =>
           LET cid == BeatCrawler
               old == IF HasState(alert_states, r, cid)
                      THEN alert_states[<<r, cid>>].consecutive_hits ELSE 0
               counter == IF crawlers[cid].status # "offline" THEN 1 ELSE old + 1
               needed == IF rules[r].consecutive_failures < 1 THEN 1 ELSE rules[r].consecutive_failures
           IN  /\ counter < needed => NewEventsOf(r) = {}
               /\ (counter >= needed /\ ~WithinCooldown(r, cid, clock')) => NewEventsOf(r) # {}
               /\ NewEventsOf(r) = {} => alert_states'[<<r, cid>>].consecutive_hits = counter]_vars

\* The crawler was stored online with the counter at 2; the offline
\* heartbeat just stored set the counter to 1, below consecutive_failures 2.
C32_Witness ==
  /\ rules[1].consecutive_failures = 2
  /\ Len(heartbeats) = 1 /\ heartbeats[1].status = "offline"
  /\ alert_states[<<1, 1>>].consecutive_hits = 1
  /\ alert_states[<<1, 1>>].last_status = "offline"
  /\ alert_events = <<>>

\* A rule stored with consecutive_failures 0 fired on the first offline heartbeat.
C32_BelowOneCountsAsOne ==
  /\ rules[1].consecutive_failures = 0
  /\ Len(heartbeats) = 1 /\ Len(alert_events) = 1

\* The heartbeats stored for crawler cid, oldest first, the step's included.
BeatsOf(cid) == SelectSeq(heartbeats', LAMBDA row : row.crawler_id = cid)

\* C33: when a stored heartbeat fires status_offline rule r for its crawler,
\* the crawler's last consecutive_failures heartbeats, this one included,
\* all reported offline, whatever edits of the rule came between them.
C33_FiresOnlyAfterConsecutiveMatches ==
  [][BeatStored =>
       \A r \in 1..Len(rules) :
         (rules[r].trigger_type = "status_offline" /\ NewEventsOf(r) # {}) =>
           LET beats == BeatsOf(BeatCrawler)
               needed == Max(rules[r].consecutive_failures, 1)
           IN  /\ Len(beats) >= needed
               /\ \A i \in (Len(beats) - needed + 1)..Len(beats) : beats[i].status = "offline"]_vars

\* C34: a listing answered 200 holds at most max_points records, in
\* chronological order, and when any row matches its last record is the most
\* recent matching row.
C34_AtMostMaxPointsRecords ==
  (response.op = "my_crawler_heartbeats" /\ response.code = 200) =>
    LET records == response.records
        matching == LatestOf(response.crawler_id, response.limit)
    IN  /\ Len(records) <= response.max_points
        /\ \A i \in 1..(Len(records) - 1) :
             heartbeats[records[i]].created_at < heartbeats[records[i + 1]].created_at
        /\ matching # <<>> => (records # <<>> /\ records[Len(records)] = matching[Len(matching)])

\* The same without the ceiling: chronological order and the most recent row.
C34_ChronologicalWithLatest ==
  (response.op = "my_crawler_heartbeats" /\ response.code = 200) =>
    LET records == response.records
        matching == LatestOf(response.crawler_id, response.limit)
    IN  /\ Len(records) <= response.max_points + 1
        /\ \A i \in 1..(Len(records) - 1) :
             heartbeats[records[i]].created_at < heartbeats[records[i + 1]].created_at
        /\ matching # <<>> => (records # <<>> /\ records[Len(records)] = matching[Len(matching)])

\* C35: an acknowledge sent for a command whose custom handler raised
\* carries the status failed, in each of the three workers.
C35_HandlerFailureAckedFailed ==
  \A i \in 1..Len(requests.acks) :
    requests.acks[i].raised => requests.acks[i].status = "failed"

\* The same for the two workers of the synchronous client.
C35_SyncWorkersAckFailed ==
  requests.kind # "async_start_command_worker" => C35_HandlerFailureAckedFailed

SyncWorker == requests.kind \in {"run_command_loop", "start_command_worker"}

\* The acknowledges of the current round for command id.
RoundAcks(id) ==
  {i \in 1..Len(requests.acks) :
     requests.acks[i].command_id = id /\ requests.acks[i].round = requests.rounds}

\* C36: when a poll round of a synchronous worker is over, every command its
\* fetch returned has been acknowledged exactly once in that round: failed
\* if the handler raised, accepted for a restart or shutdown handled by
\* default, success otherwise; and no command is executed twice.
C36_FetchedCommandsAckedInRound ==
  (SyncWorker /\ requests.pc \in {"sleep", "exited"}) =>
    /\ \A j \in 1..Len(requests.fetched) :
         LET id == requests.fetched[j] IN
         /\ Cardinality(RoundAcks(id)) = 1
         /\ \A i \in RoundAcks(id) :
              requests.acks[i].status =
                IF requests.acks[i].raised THEN "failed"
                ELSE IF ~requests.handler /\ commands[id].command \in {"restart", "shutdown"}
                THEN "accepted" ELSE "success"
    /\ \A i, j \in 1..Len(requests.executed) :
         requests.executed[i] = requests.executed[j] => i = j

\* A shell command was run twice by run_command_loop.
C36_NeverExecutedTwice ==
  \A i, j \in 1..Len(requests.executed) : requests.executed[i] = requests.executed[j] => i = j

\* C37: a stored heartbeat of a crawler leaves consecutive_hits and
\* last_triggered_at of every other crawler's alert state as they were, and
\* whether it fires rule r is decided by the crawler's own state alone: it
\* fires exactly when the counter of the (rule, crawler) pair reaches
\* consecutive_failures and the pair's own last fire is not within the
\* cooldown, whatever the rule has fired for other crawlers.
C37_CooldownAndHysteresisPerPair ==
  [][BeatStored =>
       LET cid == BeatCrawler IN
       /\ \A key \in DOMAIN alert_states :
            key[2] # cid =>
              /\ key \in DOMAIN alert_states'
              /\ alert_states'[key].consecutive_hits = alert_states[key].consecutive_hits
              /\ alert_states'[key].last_triggered_at = alert_states[key].last_triggered_at
       /\ \A r \in 1..Len(rules) :
            EvaluatedFor(r, cid) =>
              LET met == HitsWhenMet(r, cid) IN
              (NewEventsOf(r) # {}) <=>
                /\ met # NoNumber /\ met >= Max(rules[r].consecutive_failures, 1)
                /\ ~WithinCooldown(r, cid, clock')]_vars

\* Rule 1 has fired for crawler 1 and, within its cooldown of that fire, for
\* crawler 2, whose heartbeat left crawler 1's state as the fire had set it.
C37_Witness ==
  /\ Len(alert_events) = 2
  /\ alert_events[1].rule_id = 1 /\ alert_events[1].crawler_id = 1
  /\ alert_events[2].rule_id = 1 /\ alert_events[2].crawler_id = 2
  /\ alert_events[2].triggered_at - alert_events[1].triggered_at < rules[1].cooldown_minutes
  /\ heartbeats[Len(heartbeats)].crawler_id = 2
  /\ alert_states[<<1, 1>>].last_triggered_at = alert_events[1].triggered_at
  /\ alert_states[<<1, 1>>].consecutive_hits = 0
  /\ alert_states[<<1, 2>>].last_triggered_at = alert_events[2].triggered_at

\* C38: two events of one rule for one crawler are never closer together
\* than the rule's cooldown, however the heartbeat requests of the crawler
\* interleave.
C38_OneEventPerCooldownWindow ==
  \A i, j \in 1..Len(alert_events) :
    (/\ i < j
     /\ alert_events[i].rule_id = alert_events[j].rule_id
     /\ alert_events[i].crawler_id = alert_events[j].crawler_id
     /\ rules[alert_events[i].rule_id].cooldown_minutes > 0)
      => alert_events[j].triggered_at - alert_events[i].triggered_at
           >= rules[alert_events[i].rule_id].cooldown_minutes

====
